---- MODULE Spec2Model ----
(***************************************************************************)
(* Model of the RAG quality pipeline: ingestion and noise filtering        *)
(* (DocumentProcessor, AdminController), the vector index and two-stage    *)
(* retrieval (VectorService), and answer composition (RAGService,          *)
(* LLMService), the HTTP boundary of /ask (routes/chat, ChatController)    *)
(* and quality evaluation (RAGASService, EvaluationController,             *)
(* routes/evaluation).                                                     *)
(*                                                                         *)
(* The specifications share the variables:                                 *)
(*   SpecSearch    search_documents over an arbitrary index;               *)
(*   SpecAsk       ask_question over an arbitrary index;                   *)
(*   SpecIngest    loading a directory into the index, across restarts;    *)
(*   SpecChat      POST /ask over an arbitrary index;                      *)
(*   SpecEval      evaluation runs and reports over stored interactions;   *)
(*   SpecFeedback  evaluation runs interleaved with feedback submissions;  *)
(*   SpecService   evaluation runs by request and by service call, report; *)
(*   SpecRun       one evaluation run at a time, statement by statement.   *)
(***************************************************************************)
EXTENDS Integers, Sequences, FiniteSets, TLC

(***************************************************************************)
(* Bounds of the model.                                                    *)
(***************************************************************************)
\* chunks in the index of SpecSearch
MaxChunks == 4
\* chunks in the index of SpecAsk
MaxAskChunks == 2
\* largest limit / max_documents argument tried
MaxLimit == 3
\* interactions the store may hold
MaxInteractions == 1
\* sentences of the file of a one-file directory
MaxSentences == 2
\* files of a directory
MaxFiles == 2
\* loads of the directory in one behaviour
MaxLoads == 2
\* interactions in the store of SpecEval, SpecService and SpecRun
MaxStored == 2
\* interactions in the store of SpecFeedback
MaxRated == 1

(***************************************************************************)
(* Program constants.                                                      *)
(***************************************************************************)
\* initial_limit = min(limit * 3, 20)
OverFetchFactor == 3
OverFetchCap == 20
\* RecursiveCharacterTextSplitter(chunk_size=500, chunk_overlap=50)
chunk_size == 500
chunk_overlap == 50
PERPLEXITY_THRESHOLD == 600

NoDocsAnswer == "Desculpe, nao encontrei documentos relevantes para responder sua pergunta."
GenerationFailedAnswer == "Erro ao gerar resposta"
GeneratedAnswer == "resposta"
Question == "What is the credit policy?"

None == "None"
Categories == {"credito", "string"}
\* category_filter arguments: absent, empty, two indexed categories (one of
\* them the literal "string"), and a category no chunk has
Filters == {None, "", "credito", "string", "nonexistent"}
\* values of the black-box models for the one query: two are enough for
\* ties and for strict orders
Distances == {0, 1}
Scores == {0, 1}
\* string-hash salts a process may draw
Seeds == {0, 1}

VARIABLES
    hashSeed,      \* the process's string-hash salt
    collection,    \* the vector index: sequence of entries in insertion order
    distance,      \* embedding distance of the query to each indexed content
    crossScore,    \* cross-encoder score of (query, content)
    interactions,  \* the interaction store, in insertion order
    files,         \* the directory being ingested, in listdir order
    nlp,           \* whether the sentence segmenter loaded
    model,         \* whether the perplexity model loaded
    perplexity,    \* perplexity the model gives each sentence
    loads,         \* directory loads made so far
    evaluator,     \* scores the external evaluator gives each interaction
    phoenix,       \* phoenix_service.is_enabled
    run,           \* the evaluation run: idle, between read and write, done
    feedback,      \* the feedback request: idle, between read and commit, done
    last           \* observation of the last operation: arguments and result

vars == <<hashSeed, collection, distance, crossScore, interactions,
          files, nlp, model, perplexity, loads,
          evaluator, phoenix, run, feedback, last>>

retrievalVars == <<collection, distance, crossScore>>
ingestVars == <<files, nlp, model, perplexity, loads>>
evaluationVars == <<evaluator, phoenix, run, feedback>>

\* an Optional value: None is the empty sequence
Null == <<>>
Some(x) == <<x>>

Min(a, b) == IF a < b THEN a ELSE b

Range(s) == {s[i] : i \in DOMAIN s}

(***************************************************************************)
(* VectorService.add_document: the id is category + "_" + hash(title +     *)
(* content).  Python salts str hashes per process, so the hash is a        *)
(* function of the process's seed and of the string.                       *)
(***************************************************************************)
Hash(seed, title, content) == <<seed, title, content>>

DocId(seed, document) ==
    <<document.category, Hash(seed, document.title, document.content)>>

Entry(seed, document) ==
    [id       |-> DocId(seed, document),
     title    |-> document.title,
     category |-> document.category,
     content  |-> document.content,
     metadata |-> document.metadata]

(***************************************************************************)
(* VectorService.search_documents.                                         *)
(***************************************************************************)
WhereFilter(category_filter) ==
    IF category_filter # None /\ category_filter # "" /\ category_filter # "string"
    THEN category_filter
    ELSE None

InitialLimit(limit) == Min(limit * OverFetchFactor, OverFetchCap)

Matches(where_filter) ==
    {i \in DOMAIN collection :
        where_filter = None \/ collection[i].category = where_filter}

\* position i is nearer to the query than position j (ties: insertion order)
Nearer(i, j) ==
    \/ distance[collection[i].content] < distance[collection[j].content]
    \/ /\ distance[collection[i].content] = distance[collection[j].content]
       /\ i < j

\* collection.query: the n_results nearest entries under the where filter
CoarseQuery(where_filter, n_results) ==
    LET m == Matches(where_filter)
        rank(i) == Cardinality({j \in m : Nearer(j, i)}) + 1
        k == Min(n_results, Cardinality(m))
    IN  [p \in 1..k |-> collection[CHOOSE i \in m : rank(i) = p]]

DocumentResponse(e, score) ==
    [id |-> e.id, title |-> e.title, category |-> e.category,
     content |-> e.content, metadata |-> e.metadata,
     similarity_score |-> score]

\* cross_encoder.predict over the pairs, written onto the candidates
Rescore(candidates) ==
    [i \in DOMAIN candidates |->
        DocumentResponse(candidates[i], crossScore[candidates[i].content])]

\* insert x into s (sorted by non-increasing score) after every element whose
\* score is at least x's: equal scores keep their order
InsertDesc(s, x) ==
    LET k == Cardinality({i \in DOMAIN s : s[i].similarity_score >= x.similarity_score})
    IN  SubSeq(s, 1, k) \o <<x>> \o SubSeq(s, k + 1, Len(s))

InsertAsc(s, x) ==
    LET k == Cardinality({i \in DOMAIN s : s[i].similarity_score <= x.similarity_score})
    IN  SubSeq(s, 1, k) \o <<x>> \o SubSeq(s, k + 1, Len(s))

RECURSIVE SortAsc(_)
\* the sort without reverse=True
SortAsc(s) ==
    IF s = <<>> THEN <<>>
    ELSE InsertAsc(SortAsc(SubSeq(s, 1, Len(s) - 1)), s[Len(s)])

RECURSIVE SortDesc(_)
\* temp_documents.sort(key=similarity_score, reverse=True): stable
SortDesc(s) ==
    IF s = <<>> THEN <<>>
    ELSE InsertDesc(SortDesc(SubSeq(s, 1, Len(s) - 1)), s[Len(s)])

\* temp_documents[-limit:]
TruncateTail(s, limit) == SubSeq(s, Len(s) - Min(limit, Len(s)) + 1, Len(s))

\* temp_documents[:limit]
Truncate(s, limit) == SubSeq(s, 1, Min(limit, Len(s)))

\* predict called before the emptiness tests
PredictAlways(candidates) == 1

\* number of cross_encoder.predict invocations of one call
PredictCalls(candidates) == IF candidates = <<>> THEN 0 ELSE 1

search_documents(limit, category_filter) ==
    LET candidates == CoarseQuery(WhereFilter(category_filter), InitialLimit(limit))
    IN  [documents    |-> IF candidates = <<>> THEN <<>>
                          ELSE Truncate(SortDesc(Rescore(candidates)), limit),
         candidates   |-> candidates,
         predictCalls |-> PredictCalls(candidates)]

(***************************************************************************)
(* LLMService.generate_answer: llmOk is whether the external generator     *)
(* answers; a failure is caught and returned as an error answer.           *)
(***************************************************************************)
Sources(context_documents) ==
    [i \in DOMAIN context_documents |->
        [id |-> i,
         title |-> context_documents[i].title,
         category |-> context_documents[i].category,
         similarity_score |-> context_documents[i].similarity_score]]

\* the sources built only when the generator answers
GenerateAnswerNoSources(question, context_documents, llmOk) ==
    [answer       |-> IF llmOk THEN GeneratedAnswer ELSE GenerationFailedAnswer,
     sources      |-> IF llmOk THEN Sources(context_documents) ELSE <<>>,
     context_used |-> Len(context_documents),
     question     |-> question,
     error        |-> IF llmOk THEN None ELSE "error"]

generate_answer(question, context_documents, llmOk) ==
    [answer       |-> IF llmOk THEN GeneratedAnswer ELSE GenerationFailedAnswer,
     sources      |-> Sources(context_documents),
     context_used |-> Len(context_documents),
     question     |-> question,
     error        |-> IF llmOk THEN None ELSE "error"]

\* the generator called before the emptiness test
LlmAlways(relevant_docs) == 1

\* number of llm.ainvoke invocations of one ask_question call
LlmCalls(relevant_docs) == IF relevant_docs = <<>> THEN 0 ELSE 1

(***************************************************************************)
(* RAGService.ask_question and _save_interaction.                          *)
(***************************************************************************)
SearchResults(relevant_docs) ==
    [i \in DOMAIN relevant_docs |->
        [title |-> relevant_docs[i].title,
         category |-> relevant_docs[i].category,
         similarity_score |-> relevant_docs[i].similarity_score,
         content_preview |-> relevant_docs[i].content]]

Contexts(relevant_docs) ==
    [i \in DOMAIN relevant_docs |-> relevant_docs[i].content]

\* uuid4: an id no stored interaction has
Uuids == <<"0f8fad5b-d9cb-469f-a165-70867728950e",
           "7c9e6679-7425-40de-944b-e07fc1f90ae7",
           "3f2504e0-4f89-41d3-9a0c-0305e82c3301",
           "9b2d5b46-0e3a-4f7b-8d51-6a1f0c2e7d44">>
Uuid(n) == Uuids[n]
NewInteractionId == Uuid(Len(interactions) + 1)

\* the day the model runs in, and the day before the 30-day window
Today == 31

\* RAGInteractionDB as _save_interaction writes it: no feedback, no scores
Interaction(question, answer, contexts, sources) ==
    [id |-> NewInteractionId, question |-> question, answer |-> answer,
     contexts |-> contexts, sources |-> sources, timestamp |-> Today,
     user_feedback |-> Null, ragas_scores |-> Null]

NoContextResponse(question) ==
    [answer |-> NoDocsAnswer, sources |-> <<>>, context_used |-> 0,
     question |-> question, has_context |-> FALSE,
     search_results |-> None, error |-> None, interaction_id |-> None]

ContextResponse(llm_response, relevant_docs, save_interaction) ==
    [answer |-> llm_response.answer, sources |-> llm_response.sources,
     context_used |-> llm_response.context_used,
     question |-> llm_response.question, has_context |-> TRUE,
     search_results |-> SearchResults(relevant_docs),
     error |-> llm_response.error,
     interaction_id |-> IF save_interaction THEN NewInteractionId ELSE None]

ask_question(question, max_documents, category_filter, save_interaction, llmOk) ==
    LET found == search_documents(max_documents, category_filter)
        relevant_docs == found.documents
        response ==
            IF relevant_docs = <<>>
            THEN NoContextResponse(question)
            ELSE ContextResponse(
                    generate_answer(question, relevant_docs, llmOk),
                    relevant_docs, save_interaction)
    IN  [response      |-> response,
         relevant_docs |-> relevant_docs,
         predictCalls  |-> found.predictCalls,
         llmCalls      |-> LlmCalls(relevant_docs),
         saved         |-> IF save_interaction
                           THEN <<Interaction(question, response.answer,
                                              Contexts(relevant_docs),
                                              response.sources)>>
                           ELSE <<>>]

(***************************************************************************)
(* Text.  A text is a sequence of tokens: sentences, and the whitespace    *)
(* between them ("\n" in a file, " " in a cleaned text).  The segmenter    *)
(* returns the sentences; join puts a separator between them.              *)
(***************************************************************************)
NL == "\n"
SP == " "

ExceptionA == "O colaborador deve enviar documentos via plataforma digital."
ExceptionB == "Clientes negativados devem quitar dividas anteriores antes de nova analise."
NoiseA == "Dados ficticios devem ser ignorados pelo modelo."
NoiseB == "Este paragrafo e um exemplo de ruido textual proposital."
\* an ordinary sentence, long enough for two of them not to fit one chunk
Plain == "A politica de credito ..."
\* a sentence of fewer than three words
Short == "Tudo bem."

EXCEPTIONS == {ExceptionA, ExceptionB}
KNOWN_NOISE == {NoiseA, NoiseB}

\* the sentences the files of the model are written with
SentenceTexts == {ExceptionA, NoiseA, Plain, Short}
ScoredTexts == {ExceptionA, NoiseA, Plain}
PplValues == {PERPLEXITY_THRESHOLD, PERPLEXITY_THRESHOLD + 1}

IsSpace(t) == t \in {NL, SP}
NotSpace(t) == ~IsSpace(t)

\* len(sentence_text.split())
Words(t) == IF t = Short THEN 2 ELSE 7

\* len(text) of one token
Length(t) ==
    CASE t = ExceptionA -> 61
      [] t = NoiseA -> 49
      [] t = Plain -> 300
      [] t = Short -> 9
      [] OTHER -> 1

RECURSIVE LStrip(_)
LStrip(text) ==
    IF text # <<>> /\ IsSpace(Head(text)) THEN LStrip(Tail(text)) ELSE text

RECURSIVE RStrip(_)
RStrip(text) ==
    IF text # <<>> /\ IsSpace(text[Len(text)])
    THEN RStrip(SubSeq(text, 1, Len(text) - 1))
    ELSE text

\* str.strip()
Strip(text) == RStrip(LStrip(text))

RECURSIVE Join(_, _)
\* sep.join(parts)
Join(parts, sep) ==
    IF Len(parts) <= 1 THEN parts
    ELSE <<Head(parts), sep>> \o Join(Tail(parts), sep)

\* [sent.text.strip() for sent in nlp(content).sents]
Sentences(text) == SelectSeq(text, NotSpace)

(***************************************************************************)
(* DocumentProcessor._clean_content.                                       *)
(***************************************************************************)
\* the decision with the noise list inside the threshold test
SuspectAboveThresholdOnly(sentence_text) ==
    /\ perplexity[sentence_text] > PERPLEXITY_THRESHOLD
    /\ \/ sentence_text \notin EXCEPTIONS
       \/ sentence_text \in KNOWN_NOISE

\* the decision of ETAPA 3: TRUE when the sentence is removed
Suspect(sentence_text) ==
    \/ /\ perplexity[sentence_text] > PERPLEXITY_THRESHOLD
       /\ sentence_text \notin EXCEPTIONS
    \/ sentence_text \in KNOWN_NOISE

TooShort(sentence_text) == Words(sentence_text) < 3

Good(sentence_text) == ~TooShort(sentence_text) /\ ~Suspect(sentence_text)

\* the early return taken only when neither model loaded
PassThroughBothMissing == ~nlp /\ ~model

\* the early return when a model did not load
PassThrough == ~nlp \/ ~model

clean_content(content) ==
    IF PassThrough THEN content
    ELSE Join(SelectSeq(Sentences(content), Good), SP)

(***************************************************************************)
(* DocumentProcessor.load_documents_from_directory.  A file is             *)
(* [stem, ext, title, category, content, fault]: title and category are    *)
(* the values of its metadata lines ("" when it has none); fault is where   *)
(* processing the file raises: at open/read, or inside the scorer.          *)
(***************************************************************************)
IsTxt(file) == file.ext = ".txt"

Raises(file) ==
    \/ file.fault = "read"
    \/ file.fault = "clean" /\ ~PassThrough

\* PASSO 4 left out
NeverEmpty(clean) == FALSE

\* PASSO 4: nothing is left after cleaning
EmptyAfterCleaning(clean) == Strip(clean) = <<>>

Document(file, clean) ==
    [title    |-> IF file.title # "" THEN file.title ELSE file.stem,
     category |-> IF file.category # "" THEN file.category ELSE "sem_categoria",
     content  |-> clean,
     metadata |-> [source_file |-> <<file.stem, file.ext>>]]

\* the documents one file adds to the list: none or one
FileDocuments(file) ==
    IF ~IsTxt(file) \/ Raises(file) THEN <<>>
    ELSE LET clean == clean_content(Strip(file.content))
         IN  IF EmptyAfterCleaning(clean) THEN <<>>
             ELSE <<Document(file, clean)>>

\* the loop left at the first file that raises
AbortAfterBadFile(file, rest) ==
    IF IsTxt(file) /\ Raises(file) THEN <<>> ELSE rest

\* the except branch ends with continue: the files after a bad one are
\* still processed
AfterFile(file, rest) == rest

RECURSIVE LoadFrom(_)
LoadFrom(i) ==
    IF i > Len(files) THEN <<>>
    ELSE FileDocuments(files[i]) \o AfterFile(files[i], LoadFrom(i + 1))

load_documents(directory) == LoadFrom(1)

(***************************************************************************)
(* DocumentProcessor.chunk_document.  The splitter is modelled at the      *)
(* granularity of sentences: it merges them, in order, into chunks of at   *)
(* most chunk_size characters, starting a chunk with the trailing          *)
(* sentences of the previous one that fit in chunk_overlap.                *)
(***************************************************************************)
Separator(text) == IF NL \in Range(text) THEN NL ELSE SP

RECURSIVE TotalLength(_)
TotalLength(units) ==
    IF units = <<>> THEN 0
    ELSE Length(Head(units)) + (IF Len(units) > 1 THEN 1 ELSE 0)
         + TotalLength(Tail(units))

Overflows(current, d) ==
    TotalLength(current) + Length(d) + (IF current # <<>> THEN 1 ELSE 0) > chunk_size

RECURSIVE Shrink(_, _)
\* drop leading units until what is kept fits the overlap and leaves room for d
Shrink(current, d) ==
    IF \/ TotalLength(current) > chunk_overlap
       \/ Overflows(current, d) /\ TotalLength(current) > 0
    THEN Shrink(Tail(current), d)
    ELSE current

RECURSIVE MergeSplits(_, _, _)
MergeSplits(splits, current, sep) ==
    IF splits = <<>>
    THEN IF current = <<>> THEN <<>> ELSE <<Join(current, sep)>>
    ELSE LET d == Head(splits)
         IN  IF Overflows(current, d) /\ current # <<>>
             THEN <<Join(current, sep)>>
                  \o MergeSplits(Tail(splits), Append(Shrink(current, d), d), sep)
             ELSE MergeSplits(Tail(splits), Append(current, d), sep)

split_text(text) == MergeSplits(Sentences(text), <<>>, Separator(text))

chunk_document(document) ==
    LET chunks == split_text(document.content)
    IN  [i \in DOMAIN chunks |->
            [title    |-> <<document.title, "Chunk", i>>,
             category |-> document.category,
             content  |-> chunks[i],
             metadata |-> [source_file |-> document.metadata.source_file,
                           chunk_index |-> i - 1,
                           total_chunks |-> Len(chunks)]]]

(***************************************************************************)
(* VectorService.add_document and AdminController._process_documents_batch.*)
(* failAt = <<d, c>> is the add_document call that raises (the c-th chunk  *)
(* of the d-th document), NoFailure when none does.                        *)
(***************************************************************************)
NoFailure == <<0, 0>>

HasId(coll, id) == \E i \in DOMAIN coll : coll[i].id = id

\* collection.add: an id the collection already holds is not added again
add_document(coll, seed, document) ==
    IF HasId(coll, DocId(seed, document)) THEN coll
    ELSE Append(coll, Entry(seed, document))

\* what a failed add leaves of the chunks the document already indexed
OnAddFailure(before, coll) == coll

RECURSIVE IndexChunks(_, _, _, _, _)
\* the inner loop over chunked_docs from chunk c on; failC = 0: no add raises
IndexChunks(chunked_docs, c, failC, before, coll) ==
    IF c > Len(chunked_docs) THEN [collection |-> coll, success |-> TRUE]
    ELSE IF c = failC
         THEN [collection |-> OnAddFailure(before, coll), success |-> FALSE]
         ELSE IndexChunks(chunked_docs, c + 1, failC, before,
                          add_document(coll, hashSeed, chunked_docs[c]))

ProcessingResult(document, chunked_docs, success) ==
    [document_title |-> document.title,
     success        |-> success,
     chunks_created |-> IF success THEN Len(chunked_docs) ELSE 0,
     chunks_indexed |-> IF success THEN Len(chunked_docs) ELSE 0,
     file_source    |-> document.metadata.source_file]

RECURSIVE ProcessBatch(_, _, _, _)
ProcessBatch(documents, d, failAt, coll) ==
    IF d > Len(documents) THEN [collection |-> coll, results |-> <<>>]
    ELSE LET chunked_docs == chunk_document(documents[d])
             failC == IF failAt[1] = d THEN failAt[2] ELSE 0
             one == IndexChunks(chunked_docs, 1, failC, coll, coll)
             rest == ProcessBatch(documents, d + 1, failAt, one.collection)
         IN  [collection |-> rest.collection,
              results |-> <<ProcessingResult(documents[d], chunked_docs, one.success)>>
                          \o rest.results]

\* the add_document calls of a batch
AddCalls(documents) ==
    UNION {{<<d, c>> : c \in DOMAIN chunk_document(documents[d])} :
              d \in DOMAIN documents}

RECURSIVE SumChunksCreated(_)
SumChunksCreated(results) ==
    IF results = <<>> THEN 0
    ELSE Head(results).chunks_created + SumChunksCreated(Tail(results))

(***************************************************************************)
(* AdminController.load_documents_from_directory.                          *)
(***************************************************************************)
HasTxtFiles == \E i \in DOMAIN files : IsTxt(files[i])

load_documents_from_directory(failAt) ==
    LET documents == IF HasTxtFiles THEN load_documents("dir") ELSE <<>>
        batch == ProcessBatch(documents, 1, failAt, collection)
    IN  IF documents = <<>>
        THEN [success |-> FALSE, documents |-> <<>>, collection |-> collection,
              total_files |-> 0, total_chunks |-> 0, processing_details |-> <<>>]
        ELSE [success |-> TRUE, documents |-> documents,
              collection |-> batch.collection,
              total_files |-> Len(documents),
              total_chunks |-> SumChunksCreated(batch.results),
              processing_details |-> batch.results]

(***************************************************************************)
(* Index contents for the retrieval specifications: n chunks, chunk i with *)
(* content i, any category, any distance to the query, any rerank score.   *)
(***************************************************************************)
Chunk(i, category) ==
    [title |-> i, category |-> category, content |-> i,
     metadata |-> [source_file |-> "f.txt", chunk_index |-> 0, total_chunks |-> 1]]

InitIndex(maxChunks, distances) ==
    \E n \in 0..maxChunks :
        /\ \E cats \in [1..n -> Categories] :
              collection = [i \in 1..n |-> Entry(hashSeed, Chunk(i, cats[i]))]
        /\ distance \in [1..n -> distances]
        /\ crossScore \in [1..n -> Scores]

NoIngest ==
    /\ files = <<>>
    /\ nlp = FALSE
    /\ model = FALSE
    /\ perplexity = <<>>
    /\ loads = 0

NoEvaluation ==
    /\ evaluator = <<>>
    /\ phoenix = FALSE
    /\ run = [pc |-> "idle"]
    /\ feedback = [pc |-> "idle"]

InitSearch ==
    /\ hashSeed = 0
    /\ InitIndex(MaxChunks, Distances)
    /\ interactions = <<>>
    /\ NoIngest
    /\ NoEvaluation
    /\ last = [op |-> "none"]

\* a search changes no state of the program, so one call per behaviour
\* shows every call
Search ==
    \E limit \in 1..MaxLimit, category_filter \in Filters :
        /\ last.op = "none"
        /\ last' = [op |-> "search", limit |-> limit,
                    category_filter |-> category_filter,
                    result |-> search_documents(limit, category_filter)]
        /\ UNCHANGED <<hashSeed, retrievalVars, interactions, ingestVars,
                       evaluationVars>>

NextSearch == Search

SpecSearch == InitSearch /\ [][NextSearch]_vars

\* no filter, a filter some chunks may match, a filter none matches
AskFilters == {None, "credito", "nonexistent"}

InitAsk ==
    /\ hashSeed = 0
    /\ InitIndex(MaxAskChunks, {0})
    /\ interactions = <<>>
    /\ NoIngest
    /\ NoEvaluation
    /\ last = [op |-> "none"]

Ask ==
    \E max_documents \in 1..MaxLimit, category_filter \in AskFilters,
       save_interaction \in BOOLEAN, llmOk \in BOOLEAN :
        /\ save_interaction => Len(interactions) < MaxInteractions
        /\ LET out == ask_question(Question, max_documents, category_filter,
                                   save_interaction, llmOk)
           IN  /\ last' = [op |-> "ask", save_interaction |-> save_interaction,
                           llmOk |-> llmOk, out |-> out]
               /\ interactions' = interactions \o out.saved
        /\ UNCHANGED <<hashSeed, retrievalVars, ingestVars, evaluationVars>>

NextAsk == Ask

SpecAsk == InitAsk /\ [][NextAsk]_vars

(***************************************************************************)
(* Ingestion: a directory, loaded up to MaxLoads times by a process that   *)
(* may be restarted in between.  The directory is either one file of any   *)
(* MaxSentences sentences under any scorer, or up to MaxFiles files each   *)
(* of which is clean text, noise, unreadable, a scorer failure or not a    *)
(* .txt file.                                                              *)
(***************************************************************************)
\* a file's text: one sentence per line
FileText(sentences) == Join(sentences, NL) \o <<NL>>

File(stem, ext, title, category, content, fault) ==
    [stem |-> stem, ext |-> ext, title |-> title, category |-> category,
     content |-> content, fault |-> fault]

FileStems == <<"a", "b", "c", "d">>
Stem(i) == FileStems[i]

\* the first file of a directory carries metadata lines, the others none
TitleLine(i) == IF i = 1 THEN "Politica de Credito" ELSE ""
CategoryLine(i) == IF i = 1 THEN "credito" ELSE ""

OneFileDirectory ==
    /\ \E n \in 0..MaxSentences : \E sentences \in [1..n -> SentenceTexts] :
          files = <<File(Stem(2), ".txt", "", "", FileText(sentences), "none")>>
    /\ nlp \in BOOLEAN
    /\ model \in BOOLEAN
    /\ IF nlp /\ model
       THEN perplexity \in [ScoredTexts -> PplValues]
       ELSE perplexity = [t \in ScoredTexts |-> PERPLEXITY_THRESHOLD]

\* noise only, one chunk of text, two chunks of text
DirectoryTexts ==
    {FileText(<<NoiseA>>), FileText(<<Plain>>), FileText(<<Plain, Plain>>)}

FileVariants(i) ==
    {File(Stem(i), ".txt", TitleLine(i), CategoryLine(i), text, "none") :
        text \in DirectoryTexts}
    \cup {File(Stem(i), ".txt", TitleLine(i), CategoryLine(i), FileText(<<Plain>>), fault) :
            fault \in {"read", "clean"}}
    \cup {File(Stem(i), ".md", TitleLine(i), CategoryLine(i), FileText(<<Plain>>), "none")}

Directory ==
    /\ \E n \in 0..MaxFiles :
          \E choice \in [1..n -> UNION {FileVariants(i) : i \in 1..MaxFiles}] :
              /\ \A i \in 1..n : choice[i] \in FileVariants(i)
              /\ files = choice
    /\ nlp \in BOOLEAN
    /\ model = nlp
    /\ perplexity = [t \in ScoredTexts |->
                        IF t = ExceptionA THEN PERPLEXITY_THRESHOLD + 1
                        ELSE PERPLEXITY_THRESHOLD]

InitIngest ==
    /\ hashSeed = 0
    /\ collection = <<>>
    /\ distance = <<>>
    /\ crossScore = <<>>
    /\ interactions = <<>>
    /\ loads = 0
    /\ NoEvaluation
    /\ last = [op |-> "none"]
    /\ OneFileDirectory \/ Directory

Load ==
    /\ loads < MaxLoads
    /\ \E failAt \in {NoFailure} \cup AddCalls(load_documents("dir")) :
          LET out == load_documents_from_directory(failAt)
          IN  /\ collection' = out.collection
              /\ last' = [op |-> "load", failAt |-> failAt,
                          success |-> out.success,
                          documents |-> out.documents,
                          total_files |-> out.total_files,
                          total_chunks |-> out.total_chunks,
                          processing_details |-> out.processing_details]
    /\ loads' = loads + 1
    /\ UNCHANGED <<hashSeed, distance, crossScore, interactions,
                   files, nlp, model, perplexity, evaluationVars>>

\* a new process: the index persists, the string-hash salt is drawn again
Restart ==
    /\ \E seed \in Seeds : hashSeed' = seed
    /\ last' = [op |-> "restart"]
    /\ UNCHANGED <<collection, distance, crossScore, interactions, ingestVars,
                   evaluationVars>>

NextIngest == Load \/ Restart

SpecIngest == InitIngest /\ [][NextIngest]_vars

(***************************************************************************)
(* Numbers of the evaluation.  A score is a decimal number held in         *)
(* thousandths (0.7 is 700).  A float is a record, so that NaN is a value  *)
(* of the same type as a number; a quotient keeps its numerator and        *)
(* denominator until it is compared or rounded.                            *)
(***************************************************************************)
Float(v) == [nan |-> FALSE, v |-> v]
NaN == [nan |-> TRUE, v |-> 0]

Max(a, b) == IF a > b THEN a ELSE b

\* float addition: NaN absorbs
Add(a, b) == IF a.nan \/ b.nan THEN NaN ELSE Float(a.v + b.v)

RECURSIVE Sum(_)
\* sum(values), from 0
Sum(values) ==
    IF values = <<>> THEN Float(0)
    ELSE Add(Head(values), Sum(Tail(values)))

\* s / n, and its comparisons with a threshold t: a comparison with NaN
\* is False
Quotient(s, n) == [nan |-> s.nan, num |-> s.v, den |-> n]
Less(q, t) == ~q.nan /\ q.num < t * q.den
Greater(q, t) == ~q.nan /\ q.num > t * q.den
AtLeast(q, t) == ~q.nan /\ q.num >= t * q.den

\* round(x, 3): the nearest thousandth, a tie to the even one
RoundHalfEven(num, den) ==
    LET q == num \div den
        r == num % den
    IN  IF 2 * r < den THEN q
        ELSE IF 2 * r > den THEN q + 1
        ELSE IF q % 2 = 0 THEN q ELSE q + 1

Round(q) == IF q.nan THEN NaN ELSE Float(RoundHalfEven(q.num, q.den))

(***************************************************************************)
(* The interaction store (table rag_interactions) behind SQLAlchemy        *)
(* sessions.  A session flushes, for an object whose attribute was set,    *)
(* an UPDATE of that column of that row.                                   *)
(***************************************************************************)
IdsOf(rows) == [i \in DOMAIN rows |-> rows[i].id]

HasRow(store, id) == \E i \in DOMAIN store : store[i].id = id

RowOf(store, id) == store[CHOOSE i \in DOMAIN store : store[i].id = id]

\* select(RAGInteractionDB).where(id.in_(interaction_ids)): table order
SelectByIds(store, interaction_ids) ==
    LET Wanted(row) == row.id \in Range(interaction_ids)
    IN  SelectSeq(store, Wanted)

\* select(RAGInteractionDB).limit(limit)
SelectLimit(store, limit) == SubSeq(store, 1, Min(limit, Len(store)))

RECURSIVE InsertRecent(_, _)
InsertRecent(row, sorted) ==
    IF sorted = <<>> \/ row.timestamp >= Head(sorted).timestamp
    THEN <<row>> \o sorted
    ELSE <<Head(sorted)>> \o InsertRecent(row, Tail(sorted))

RECURSIVE OrderByTimestampDesc(_)
\* order_by(desc(timestamp))
OrderByTimestampDesc(rows) ==
    IF rows = <<>> THEN <<>>
    ELSE InsertRecent(Head(rows), OrderByTimestampDesc(Tail(rows)))

\* the row written back as the object was read, with the new scores
UpdateWholeRow(store, row, ragas_scores) ==
    [i \in DOMAIN store |->
        IF store[i].id = row.id
        THEN [row EXCEPT !.ragas_scores = Some(ragas_scores)]
        ELSE store[i]]

\* interaction.ragas_scores = ...; session.add(interaction); commit
UpdateRagasScores(store, row, ragas_scores) ==
    [i \in DOMAIN store |->
        IF store[i].id = row.id
        THEN [store[i] EXCEPT !.ragas_scores = Some(ragas_scores)]
        ELSE store[i]]

\* the row written back as the object was read, with the rating
UpdateRatedWholeRow(store, row, rating) ==
    [i \in DOMAIN store |->
        IF store[i].id = row.id
        THEN [row EXCEPT !.user_feedback = Some(rating)]
        ELSE store[i]]

\* interaction.user_feedback = feedback.rating; db.commit()
UpdateUserFeedback(store, row, rating) ==
    [i \in DOMAIN store |->
        IF store[i].id = row.id
        THEN [store[i] EXCEPT !.user_feedback = Some(rating)]
        ELSE store[i]]

\* timestamp >= now - timedelta(days), ragas_scores is not None
HistoricalWindowDays == 30

\* the query without its cutoff date
ScoredAnyTime(store, days) ==
    LET Scored(row) == row.ragas_scores # Null
    IN  SelectSeq(store, Scored)

ScoredInWindow(store, days) ==
    LET InWindow(row) == /\ row.timestamp >= Today - days
                         /\ row.ragas_scores # Null
    IN  SelectSeq(store, InWindow)

(***************************************************************************)
(* EvaluationController: validation and resolution of the request.         *)
(***************************************************************************)
MaxEvaluationIds == 100
MinIdLength == 10
RecentLimit == 50

\* a truthy list: not None and not empty
Given(interaction_ids) == interaction_ids # Null /\ interaction_ids[1] # <<>>

\* _validate_evaluation_request without the id format test
ValidateCountOnly(request) ==
    IF ~Given(request.interaction_ids) THEN "ok"
    ELSE IF Len(request.interaction_ids[1]) > MaxEvaluationIds
         THEN "TOO_MANY_INTERACTIONS"
         ELSE "ok"

\* _validate_evaluation_request: "ok", or the error code it raises with
ValidateEvaluationRequest(request) ==
    IF ~Given(request.interaction_ids) THEN "ok"
    ELSE LET ids == request.interaction_ids[1]
         IN  IF Len(ids) > MaxEvaluationIds THEN "TOO_MANY_INTERACTIONS"
             ELSE IF \E i \in DOMAIN ids : Len(ids[i]) < MinIdLength
                  THEN "INVALID_INTERACTION_IDS"
                  ELSE "ok"

\* _resolve_interaction_ids
ResolveInteractionIds(store, request) ==
    IF Given(request.interaction_ids) THEN request.interaction_ids[1]
    ELSE IdsOf(SelectLimit(OrderByTimestampDesc(store), RecentLimit))

\* _create_evaluation_error_response
EvaluationErrorResponse(error_code) ==
    [evaluation_status |-> "error", error_code |-> error_code,
     total_interactions |-> 0, average_scores |-> <<>>,
     individual_scores |-> <<>>]

(***************************************************************************)
(* RAGASService.evaluate_interactions: read, score, aggregate, persist.    *)
(***************************************************************************)
\* self.metrics
Metrics == {"faithfulness", "answer_relevancy"}

\* the first query of evaluate_interactions
ReadInteractions(store, interaction_ids, limit) ==
    IF interaction_ids # <<>> THEN SelectByIds(store, interaction_ids)
    ELSE SelectLimit(store, limit)

\* df[metric].tolist(): the evaluator's score of each row of the dataset
ScoreColumn(rows, metric) ==
    [i \in DOMAIN rows |-> evaluator[rows[i].id][metric]]

\* score is not None and isinstance(score, (int, float)): NaN is a float
IsNumber(score) == score # Null

Unwrap(scores) == [i \in DOMAIN scores |-> scores[i][1]]

ValidScores(scores) == Unwrap(SelectSeq(scores, IsNumber))

\* faithfulness_avg, relevancy_avg, as reported (rounded to 3 places)
AverageScore(scores) ==
    IF scores = <<>> THEN Float(0)
    ELSE LET valid == ValidScores(scores)
         IN  IF valid = <<>> THEN Float(0)
             ELSE Round(Quotient(Sum(valid), Len(valid)))

\* round(float(score), 3) of a score in thousandths, None otherwise
IndividualMetric(scores, i) ==
    IF i <= Len(scores) /\ IsNumber(scores[i]) THEN scores[i] ELSE Null

IndividualScores(rows, faithfulness_scores, answer_relevancy_scores) ==
    [i \in DOMAIN rows |->
        [interaction_id |-> rows[i].id,
         question |-> rows[i].question,
         faithfulness |-> IndividualMetric(faithfulness_scores, i),
         answer_relevancy |-> IndividualMetric(answer_relevancy_scores, i)]]

\* what evaluate() does with a dataset: returns scores, raises, or returns
\* an empty result
EvaluatorOutcomes == {"scores", "raises", "empty"}

\* an empty result of evaluate() taken as a result without scores
ScoreEmptyAsUnscored(rows, outcome) ==
    IF outcome = "raises"
    THEN [error |-> "Erro durante avaliacao RAGAS",
          total_interactions |-> Len(rows)]
    ELSE [total_interactions |-> Len(rows),
          average_scores |->
              [faithfulness |-> AverageScore(<<>>),
               answer_relevancy |-> AverageScore(<<>>)],
          individual_scores |-> IndividualScores(rows, <<>>, <<>>)]

\* steps 4 to 6 of evaluate_interactions
ScoreInteractions(rows, outcome) ==
    IF outcome # "scores"
    THEN [error |-> "Erro durante avaliacao RAGAS",
          total_interactions |-> Len(rows)]
    ELSE LET faithfulness_scores == ScoreColumn(rows, "faithfulness")
             answer_relevancy_scores == ScoreColumn(rows, "answer_relevancy")
         IN  [total_interactions |-> Len(rows),
              average_scores |->
                  [faithfulness |-> AverageScore(faithfulness_scores),
                   answer_relevancy |-> AverageScore(answer_relevancy_scores)],
              individual_scores |->
                  IndividualScores(rows, faithfulness_scores,
                                   answer_relevancy_scores)]

\* zip(interactions, individual_scores) with the scores of another row
RagasScoresOfFirst(individual_scores, k) ==
    [faithfulness |-> individual_scores[1].faithfulness,
     answer_relevancy |-> individual_scores[1].answer_relevancy]

\* the dictionary _save_ragas_scores builds for the k-th pair of the zip
RagasScoresOf(individual_scores, k) ==
    [faithfulness |-> individual_scores[k].faithfulness,
     answer_relevancy |-> individual_scores[k].answer_relevancy]

RECURSIVE SaveFrom(_, _, _, _)
SaveFrom(store, rows, individual_scores, k) ==
    IF k > Min(Len(rows), Len(individual_scores)) THEN store
    ELSE SaveFrom(UpdateRagasScores(store, rows[k],
                                    RagasScoresOf(individual_scores, k)),
                  rows, individual_scores, k + 1)

\* the session closed without a commit
SaveNothing(store, rows, individual_scores) == store

\* _save_ragas_scores: one session, one commit
save_ragas_scores(store, rows, individual_scores) ==
    SaveFrom(store, rows, individual_scores, 1)

(***************************************************************************)
(* EvaluationController: business metrics, historical comparison and       *)
(* recommendations.                                                        *)
(***************************************************************************)
ExcellentThreshold == 800
GoodThreshold == 700
FairThreshold == 600

Grade(q) ==
    IF AtLeast(q, ExcellentThreshold) THEN "Excellent"
    ELSE IF AtLeast(q, GoodThreshold) THEN "Good"
    ELSE IF AtLeast(q, FairThreshold) THEN "Fair"
    ELSE "Poor"

DistributionMetrics == <<"faithfulness", "answer_relevancy", "context_precision">>

\* score_data.get(metric) is not None
HasMetric(score_data, metric) ==
    metric \in DOMAIN score_data /\ score_data[metric] # Null

\* the scores of one interaction that are not None, in metric order
AvailableScores(score_data) ==
    LET Available(metric) == HasMetric(score_data, metric)
        metrics == SelectSeq(DistributionMetrics, Available)
    IN  [i \in DOMAIN metrics |-> score_data[metrics[i]][1]]

\* the band of one interaction, "none" when it has no score
Band(score_data) ==
    LET scores == AvailableScores(score_data)
        avg_score == Quotient(Sum(scores), Len(scores))
    IN  IF scores = <<>> THEN "none"
        ELSE IF AtLeast(avg_score, ExcellentThreshold) THEN "excellent"
        ELSE IF AtLeast(avg_score, GoodThreshold) THEN "good"
        ELSE IF AtLeast(avg_score, FairThreshold) THEN "fair"
        ELSE "poor"

\* _calculate_score_distribution
ScoreDistribution(individual_scores) ==
    [band \in {"excellent", "good", "fair", "poor"} |->
        Cardinality({i \in DOMAIN individual_scores :
                        Band(individual_scores[i]) = band})]

\* _calculate_business_metrics
BusinessMetrics(ragas_results) ==
    LET avg_scores == ragas_results.average_scores
        overall_score ==
            Quotient(Add(avg_scores.faithfulness, avg_scores.answer_relevancy),
                     2)
    IN  [overall_quality_score |-> Round(overall_score),
         quality_grade |-> Grade(overall_score),
         score_distribution |->
             ScoreDistribution(ragas_results.individual_scores),
         total_interactions_evaluated |->
             Len(ragas_results.individual_scores)]

HistoricalMetrics == {"faithfulness", "answer_relevancy", "context_precision"}

\* the stored scores of a metric that are not None
StoredScores(rows, metric) ==
    LET Has(row) == HasMetric(row.ragas_scores[1], metric)
        having == SelectSeq(rows, Has)
    IN  [i \in DOMAIN having |-> having[i].ragas_scores[1][metric][1]]

\* _calculate_historical_averages: sum / count of each metric counted
HistoricalAverages(rows) ==
    [metric \in {m \in HistoricalMetrics : StoredScores(rows, m) # <<>>} |->
        Quotient(Sum(StoredScores(rows, metric)),
                 Len(StoredScores(rows, metric)))]

TrendThreshold == 50

\* current_avg - historical_avg
Difference(current_avg, historical_avg) ==
    [nan |-> current_avg.nan \/ historical_avg.nan,
     num |-> current_avg.v * historical_avg.den - historical_avg.num,
     den |-> historical_avg.den]

\* the classification with the bounds included
TrendInclusive(difference) ==
    IF AtLeast(difference, TrendThreshold) THEN "improving"
    ELSE IF ~difference.nan
            /\ difference.num <= (0 - TrendThreshold) * difference.den
         THEN "declining"
         ELSE "stable"

Trend(difference) ==
    IF Greater(difference, TrendThreshold) THEN "improving"
    ELSE IF Less(difference, 0 - TrendThreshold) THEN "declining"
    ELSE "stable"

\* _get_historical_comparison, over the store as it is when it runs
HistoricalComparison(store, current_results) ==
    LET historical_interactions == ScoredInWindow(store, HistoricalWindowDays)
        historical_averages == HistoricalAverages(historical_interactions)
        current_averages == current_results.average_scores
    IN  IF historical_interactions = <<>>
        THEN [status |-> "no_historical_data"]
        ELSE [status |-> "comparison_available",
              historical_interactions_count |-> Len(historical_interactions),
              trends |->
                [metric \in DOMAIN historical_averages
                              \cap DOMAIN current_averages |->
                    LET difference ==
                            Difference(current_averages[metric],
                                       historical_averages[metric])
                    IN  [trend |-> Trend(difference),
                         difference |-> Round(difference),
                         current |-> current_averages[metric],
                         historical |-> Round(historical_averages[metric])]]]

FaithfulnessThreshold == 700
RelevancyThreshold == 800
PrecisionThreshold == 600
PoorFractionThreshold == 300

LowFaithfulness == "FIDELIDADE BAIXA"
LowRelevancy == "RELEVANCIA BAIXA"
LowPrecision == "PRECISAO BAIXA"
ManyPoor == "MUITAS INTERACOES RUINS"
NegativeTrend == "TENDENCIA NEGATIVA"
Healthy == "QUALIDADE EXCELENTE"

\* recommendations.append(text) under a condition
AppendIf(condition, text) == IF condition THEN <<text>> ELSE <<>>

\* avg_scores.get(metric, 1)
GetAverage(avg_scores, metric) ==
    IF metric \in DOMAIN avg_scores THEN avg_scores[metric] ELSE Float(1000)

\* .get("historical_comparison", {}).get("trends", {})
TrendsOf(evaluation_results) ==
    IF "trends" \in DOMAIN evaluation_results.historical_comparison
    THEN evaluation_results.historical_comparison.trends
    ELSE <<>>

PoorFraction(distribution) ==
    Quotient(Float(1000 * distribution["poor"]),
             Max(distribution["excellent"] + distribution["good"]
                 + distribution["fair"] + distribution["poor"], 1))

DecliningMetrics(trends) ==
    {metric \in DOMAIN trends : trends[metric].trend = "declining"}

\* the findings of _generate_quality_recommendations, before the final test
QualityFindings(evaluation_results) ==
    LET avg_scores == evaluation_results.average_scores
        distribution == evaluation_results.business_metrics.score_distribution
    IN  AppendIf(Less(Quotient(GetAverage(avg_scores, "faithfulness"), 1),
                      FaithfulnessThreshold), LowFaithfulness)
        \o AppendIf(Less(Quotient(GetAverage(avg_scores, "answer_relevancy"), 1),
                         RelevancyThreshold), LowRelevancy)
        \o AppendIf(Less(Quotient(GetAverage(avg_scores, "context_precision"), 1),
                         PrecisionThreshold), LowPrecision)
        \o AppendIf(Greater(PoorFraction(distribution), PoorFractionThreshold),
                    ManyPoor)
        \o AppendIf(DecliningMetrics(TrendsOf(evaluation_results)) # {},
                    NegativeTrend)

\* _generate_quality_recommendations
GenerateQualityRecommendations(evaluation_results) ==
    LET recommendations == QualityFindings(evaluation_results)
    IN  IF recommendations = <<>> THEN <<Healthy>> ELSE recommendations

\* _enrich_evaluation_results, over the store as the run's write left it
EnrichEvaluationResults(store, ragas_results, interaction_ids) ==
    [total_interactions |-> ragas_results.total_interactions,
     average_scores |-> ragas_results.average_scores,
     individual_scores |-> ragas_results.individual_scores,
     interaction_ids_evaluated |-> interaction_ids,
     business_metrics |-> BusinessMetrics(ragas_results),
     historical_comparison |-> HistoricalComparison(store, ragas_results),
     evaluation_status |-> "success"]

\* step 5 of execute_ragas_evaluation
WithRecommendations(enriched_results) ==
    [business_recommendations |->
        GenerateQualityRecommendations(enriched_results)]
    @@ enriched_results

(***************************************************************************)
(* RAGASService: quality report and the combined report's recommendations. *)
(***************************************************************************)
\* a float that is truthy: not None and not 0 (NaN is truthy)
Truthy(score) == score # Null /\ score # Some(Float(0))

\* the stored scores of a metric that pass ragas_scores.get(metric)
ReportedScores(rows, metric) ==
    LET Has(row) == Truthy(row.ragas_scores[1][metric])
        having == SelectSeq(rows, Has)
    IN  [i \in DOMAIN having |-> having[i].ragas_scores[1][metric][1]]

RECURSIVE MinOf(_, _)
\* min(scores): the running minimum under <
MinOf(result, scores) ==
    IF scores = <<>> THEN result
    ELSE MinOf(IF Less(Quotient(Head(scores), 1), result.v) /\ ~result.nan
               THEN Head(scores) ELSE result,
               Tail(scores))

RECURSIVE MaxOf(_, _)
\* max(scores): the running maximum under >
MaxOf(result, scores) ==
    IF scores = <<>> THEN result
    ELSE MaxOf(IF Greater(Quotient(Head(scores), 1), result.v) /\ ~result.nan
               THEN Head(scores) ELSE result,
               Tail(scores))

\* calculate_stats
CalculateStats(scores) ==
    IF scores = <<>>
    THEN [mean |-> Quotient(Float(0), 1), min |-> Float(0), max |-> Float(0),
          count |-> 0]
    ELSE [mean |-> Quotient(Sum(scores), Len(scores)),
          min |-> MinOf(Head(scores), Tail(scores)),
          max |-> MaxOf(Head(scores), Tail(scores)),
          count |-> Len(scores)]

\* get_quality_report
QualityReport(store, days) ==
    LET rows == ScoredInWindow(store, days)
    IN  IF rows = <<>>
        THEN [error |-> "Nenhuma interacao avaliada"]
        ELSE [total_interactions |-> Len(rows),
              metrics |->
                [faithfulness |->
                    CalculateStats(ReportedScores(rows, "faithfulness")),
                 answer_relevancy |->
                    CalculateStats(ReportedScores(rows, "answer_relevancy"))]]

PhoenixDashboardHint == "Use o dashboard Phoenix"
PhoenixEmbeddingsHint == "Analise clusters de embeddings"
SystemHealthy == "Sistema funcionando bem"

\* the findings of _generate_recommendations, before the final test
ReportFindings(ragas_report) ==
    (IF "metrics" \in DOMAIN ragas_report
     THEN AppendIf(Less(ragas_report.metrics.faithfulness.mean,
                        FaithfulnessThreshold), LowFaithfulness)
          \o AppendIf(Less(ragas_report.metrics.answer_relevancy.mean,
                           RelevancyThreshold), LowRelevancy)
     ELSE <<>>)
    \o AppendIf(phoenix, PhoenixDashboardHint)
    \o AppendIf(phoenix, PhoenixEmbeddingsHint)

\* _generate_recommendations
GenerateRecommendations(ragas_report) ==
    LET recommendations == ReportFindings(ragas_report)
    IN  IF recommendations = <<>> THEN <<SystemHealthy>> ELSE recommendations

\* generate_phoenix_ragas_report
CombinedReportOf(store) ==
    LET ragas_report == QualityReport(store, HistoricalWindowDays)
    IN  [ragas_metrics |-> ragas_report,
         phoenix_active |-> phoenix,
         ragas_data_available |-> ~("error" \in DOMAIN ragas_report),
         recommendations |-> GenerateRecommendations(ragas_report)]

(***************************************************************************)
(* routes/evaluation: feedback submission and the statistics overview.     *)
(***************************************************************************)
MinRating == 1
MaxRating == 5

\* the range of the rating not checked
FeedbackStatusAnyRating(found, rating) ==
    IF found = Null THEN 404 ELSE 200

\* the status add_user_feedback answers with, given the row its query found
FeedbackStatus(found, rating) ==
    IF found = Null THEN 404
    ELSE IF rating < MinRating \/ rating > MaxRating THEN 400
    ELSE 200

\* i.user_feedback for the interactions with a truthy user_feedback
Ratings(rows) ==
    LET Rated(row) == row.user_feedback # Null /\ row.user_feedback # Some(0)
        rated == SelectSeq(rows, Rated)
    IN  [i \in DOMAIN rated |-> Float(1000 * rated[i].user_feedback[1])]

\* round(avg_user_rating, 2), in thousandths of a rating point
AverageUserRating(store) ==
    LET HasFeedback(row) == row.user_feedback # Null
        feedback_interactions == SelectSeq(store, HasFeedback)
        ratings == Ratings(feedback_interactions)
    IN  IF feedback_interactions = <<>> \/ ratings = <<>> THEN Float(0)
        ELSE Float(10 * RoundHalfEven(Sum(ratings).v, 10 * Len(ratings)))

\* get_evaluation_stats
EvaluationStats(store) ==
    LET HasScores(row) == row.ragas_scores # Null
        HasFeedback(row) == row.user_feedback # Null
    IN  [total_interactions |-> Len(store),
         interactions_with_ragas |-> Len(SelectSeq(store, HasScores)),
         interactions_with_feedback |-> Len(SelectSeq(store, HasFeedback)),
         average_user_rating |-> AverageUserRating(store)]

(***************************************************************************)
(* Evaluation runs.  execute_ragas_evaluation awaits the store twice: it   *)
(* reads the interactions, and after scoring them it writes the scores.    *)
(* StartEvaluation is the run up to the read, FinishEvaluation the rest.   *)
(***************************************************************************)
ShortId == "abc123"
UnknownId == "ffffffff-0000-4000-8000-000000000000"

Repeat(id, n) == [i \in 1..n |-> id]

Reverse(s) == [i \in DOMAIN s |-> s[Len(s) + 1 - i]]

\* the non-empty subsequences of a sequence
SubSequences(s) ==
    {SelectSeq(s, LAMBDA x : x \in chosen) :
        chosen \in SUBSET Range(s) \ {{}}}

\* id lists a request may carry: stored ids in table order and in reverse,
\* empty, malformed, unknown, and at and over the size limit
IdLists ==
    SubSequences(IdsOf(interactions))
    \cup {Reverse(IdsOf(interactions)), <<ShortId>>, <<Uuid(1), ShortId>>,
          <<UnknownId>>, Repeat(Uuid(1), MaxEvaluationIds),
          Repeat(Uuid(1), MaxEvaluationIds + 1)}

\* RAGASEvaluation
EvaluationRequests ==
    {[interaction_ids |-> Null]}
    \cup {[interaction_ids |-> Some(ids)] : ids \in IdLists}

\* the run ends without scoring
EndWithError(request, error_code) ==
    /\ run' = [pc |-> "done", status |-> "error", evaluated |-> <<>>]
    /\ last' = [op |-> "evaluate", request |-> request, outcome |-> "none",
                evaluateCalls |-> 0, interactions |-> <<>>,
                before |-> interactions,
                result |-> EvaluationErrorResponse(error_code)]

StartEvaluation ==
    /\ run.pc \in {"idle", "done"}
    /\ \E request \in EvaluationRequests :
          LET error_code == ValidateEvaluationRequest(request)
              interaction_ids == ResolveInteractionIds(interactions, request)
              rows == ReadInteractions(interactions, interaction_ids,
                                       MaxEvaluationIds)
          IN  IF error_code # "ok" THEN EndWithError(request, error_code)
              ELSE IF interaction_ids = <<>>
                   THEN EndWithError(request, "NO_INTERACTIONS")
              ELSE IF rows = <<>>
                   THEN EndWithError(request, "RAGAS_EXECUTION_ERROR")
              ELSE /\ run' = [pc |-> "read",
                              interaction_ids |-> interaction_ids,
                              interactions |-> rows]
                   /\ last' = [op |-> "read", request |-> request]
    /\ UNCHANGED <<hashSeed, retrievalVars, ingestVars, interactions,
                   evaluator, phoenix, feedback>>

FinishEvaluation ==
    /\ run.pc = "read"
    /\ \E outcome \in EvaluatorOutcomes :
          LET ragas_results == ScoreInteractions(run.interactions, outcome)
          IN  IF "error" \in DOMAIN ragas_results
              THEN /\ interactions' = interactions
                   /\ run' = [pc |-> "done", status |-> "error",
                              evaluated |-> IdsOf(run.interactions)]
                   /\ last' = [op |-> "evaluate",
                               request |-> [interaction_ids |->
                                               Some(run.interaction_ids)],
                               outcome |-> outcome, evaluateCalls |-> 1,
                               interactions |-> run.interactions,
                               before |-> interactions,
                               result |-> EvaluationErrorResponse(
                                              "RAGAS_EXECUTION_ERROR")]
              ELSE LET saved == save_ragas_scores(
                                    interactions, run.interactions,
                                    ragas_results.individual_scores)
                   IN  /\ interactions' = saved
                       /\ run' = [pc |-> "done", status |-> "success",
                                  evaluated |-> IdsOf(run.interactions)]
                       /\ last' = [op |-> "evaluate",
                                   request |-> [interaction_ids |->
                                                   Some(run.interaction_ids)],
                                   outcome |-> outcome, evaluateCalls |-> 1,
                                   interactions |-> run.interactions,
                                   before |-> interactions,
                                   result |-> WithRecommendations(
                                       EnrichEvaluationResults(
                                           saved, ragas_results,
                                           run.interaction_ids))]
    /\ UNCHANGED <<hashSeed, retrievalVars, ingestVars, evaluator, phoenix,
                   feedback>>

\* GET /evaluation/combined-report
CombinedReport ==
    /\ last' = [op |-> "report", report |-> CombinedReportOf(interactions)]
    /\ UNCHANGED <<hashSeed, retrievalVars, ingestVars, interactions,
                   evaluationVars>>

(***************************************************************************)
(* Feedback.  add_user_feedback awaits the store twice: it reads the       *)
(* interaction, and after its checks it commits the rating.                *)
(***************************************************************************)
FeedbackIds == Range(IdsOf(interactions)) \cup {UnknownId}
FeedbackRatings == {MinRating - 1, MinRating, MaxRating, MaxRating + 1}

\* scalar_one_or_none()
FindRow(store, interaction_id) ==
    IF HasRow(store, interaction_id)
    THEN Some(RowOf(store, interaction_id))
    ELSE Null

FeedbackRead ==
    /\ feedback.pc # "loaded"
    /\ \E interaction_id \in FeedbackIds, rating \in FeedbackRatings :
          feedback' = [pc |-> "loaded", interaction_id |-> interaction_id,
                       rating |-> rating,
                       interaction |-> FindRow(interactions, interaction_id)]
    /\ last' = [op |-> "find"]
    /\ UNCHANGED <<hashSeed, retrievalVars, ingestVars, interactions,
                   evaluator, phoenix, run>>

FeedbackCommit ==
    /\ feedback.pc = "loaded"
    /\ LET status == FeedbackStatus(feedback.interaction, feedback.rating)
       IN  /\ interactions' =
                 IF status = 200
                 THEN UpdateUserFeedback(interactions, feedback.interaction[1],
                                         feedback.rating)
                 ELSE interactions
           /\ feedback' = [pc |-> "done",
                           interaction_id |-> feedback.interaction_id,
                           rating |-> feedback.rating, status |-> status]
           /\ last' = [op |-> "feedback",
                       interaction_id |-> feedback.interaction_id,
                       rating |-> feedback.rating, status |-> status,
                       before |-> interactions]
    /\ UNCHANGED <<hashSeed, retrievalVars, ingestVars, evaluator, phoenix,
                   run>>

\* GET /evaluation/stats/overview
Stats ==
    /\ last' = [op |-> "stats", stats |-> EvaluationStats(interactions)]
    /\ UNCHANGED <<hashSeed, retrievalVars, ingestVars, interactions,
                   evaluationVars>>

(***************************************************************************)
(* Stores for the evaluation specifications: up to MaxStored interactions  *)
(* saved by earlier questions, the oldest possibly older than the          *)
(* comparison window, none rated or scored yet.                            *)
(***************************************************************************)
StoredInteraction(i, timestamp) ==
    [id |-> Uuid(i), question |-> Question, answer |-> GeneratedAnswer,
     contexts |-> <<1>>,
     sources |-> <<[id |-> 1, title |-> 1, category |-> "credito",
                    similarity_score |-> 1]>>,
     timestamp |-> timestamp, user_feedback |-> Null, ragas_scores |-> Null]

\* scores the evaluator may give an interaction: both high, both low,
\* a faithfulness that is not a number, none at all, one low and one absent
ScorePair(faithfulness, answer_relevancy) ==
    [faithfulness |-> faithfulness, answer_relevancy |-> answer_relevancy]

ScorePairs ==
    {ScorePair(Some(Float(900)), Some(Float(800))),
     ScorePair(Some(Float(500)), Some(Float(700))),
     ScorePair(Some(NaN), Some(Float(800))),
     ScorePair(Null, Null),
     ScorePair(Some(Float(500)), Null)}

NoRetrieval ==
    /\ hashSeed = 0
    /\ collection = <<>>
    /\ distance = <<>>
    /\ crossScore = <<>>

InitStore(maxStored, firstTimestamps) ==
    \E n \in 0..maxStored, first \in firstTimestamps :
        interactions =
            [i \in 1..n |->
                StoredInteraction(i, IF i = 1 THEN first ELSE Today)]

InitEval ==
    /\ NoRetrieval
    /\ NoIngest
    /\ InitStore(MaxStored, {Today - HistoricalWindowDays - 1, Today})
    /\ evaluator \in [Range(IdsOf(interactions)) -> ScorePairs]
    /\ phoenix \in BOOLEAN
    /\ run = [pc |-> "idle"]
    /\ feedback = [pc |-> "idle"]
    /\ last = [op |-> "none"]

NextEval == StartEvaluation \/ FinishEvaluation \/ CombinedReport

SpecEval == InitEval /\ [][NextEval]_vars

InitFeedback ==
    /\ NoRetrieval
    /\ NoIngest
    /\ InitStore(MaxRated, {Today})
    /\ evaluator = [id \in Range(IdsOf(interactions)) |->
                       ScorePair(Some(Float(900)), Some(Float(800)))]
    /\ phoenix = FALSE
    /\ run = [pc |-> "idle"]
    /\ feedback = [pc |-> "idle"]
    /\ last = [op |-> "none"]

NextFeedback ==
    \/ StartEvaluation
    \/ FinishEvaluation
    \/ FeedbackRead
    \/ FeedbackCommit
    \/ Stats

SpecFeedback == InitFeedback /\ [][NextFeedback]_vars

(***************************************************************************)
(* RAGASService.evaluate_interactions called without an id list, as the    *)
(* scripts of the repository call it: evaluate_interactions(limit=n).      *)
(* EvaluateRecentRead is the call up to its read of the store,             *)
(* EvaluateRecentWrite the rest.                                           *)
(***************************************************************************)
\* select(RAGInteractionDB).limit(limit) has no ORDER BY: the database may
\* return any limit rows of the table
SelectLimitOutcomes(store, limit) ==
    {rows \in SubSequences(store) \cup {<<>>} :
        Len(rows) = Min(limit, Len(store))}

EvaluateRecentRead ==
    /\ run.pc \in {"idle", "done"}
    /\ \E limit \in 1..MaxStored :
       \E rows \in SelectLimitOutcomes(interactions, limit) :
              IF rows = <<>>
              THEN /\ run' = [pc |-> "done", status |-> "error",
                              evaluated |-> <<>>]
                   /\ last' = [op |-> "service", limit |-> limit,
                               outcome |-> "none", evaluateCalls |-> 0,
                               interactions |-> <<>>,
                               before |-> interactions,
                               result |-> [error |-> "No interactions found"]]
              ELSE /\ run' = [pc |-> "service_read", limit |-> limit,
                              interactions |-> rows]
                   /\ last' = [op |-> "service_read", limit |-> limit]
    /\ UNCHANGED <<hashSeed, retrievalVars, ingestVars, interactions,
                   evaluator, phoenix, feedback>>

EvaluateRecentWrite ==
    /\ run.pc = "service_read"
    /\ \E outcome \in EvaluatorOutcomes :
          LET ragas_results == ScoreInteractions(run.interactions, outcome)
              failed == "error" \in DOMAIN ragas_results
          IN  /\ interactions' =
                    IF failed THEN interactions
                    ELSE save_ragas_scores(interactions, run.interactions,
                                           ragas_results.individual_scores)
              /\ run' = [pc |-> "done",
                         status |-> IF failed THEN "error" ELSE "success",
                         evaluated |-> IdsOf(run.interactions)]
              /\ last' = [op |-> "service", limit |-> run.limit,
                          outcome |-> outcome, evaluateCalls |-> 1,
                          interactions |-> run.interactions,
                          before |-> interactions,
                          result |-> ragas_results]
    /\ UNCHANGED <<hashSeed, retrievalVars, ingestVars, evaluator, phoenix,
                   feedback>>

InitService ==
    /\ NoRetrieval
    /\ NoIngest
    /\ InitStore(MaxStored, {Today - HistoricalWindowDays - 1, Today})
    /\ evaluator \in [Range(IdsOf(interactions)) ->
                         {ScorePair(Some(Float(900)), Some(Float(800))),
                          ScorePair(Some(Float(0)), Some(Float(800))),
                          ScorePair(Some(Float(500)), Null)}]
    /\ phoenix = FALSE
    /\ run = [pc |-> "idle"]
    /\ feedback = [pc |-> "idle"]
    /\ last = [op |-> "none"]

NextService ==
    \/ StartEvaluation
    \/ FinishEvaluation
    \/ EvaluateRecentRead
    \/ EvaluateRecentWrite
    \/ CombinedReport

SpecService == InitService /\ [][NextService]_vars

(***************************************************************************)
(* One evaluation run, statement by statement.  After StartEvaluation has  *)
(* read the interactions: evaluate() (RunScore), the averages and the      *)
(* individual scores (RunAggregate), _save_ragas_scores (RunPersist), and, *)
(* back in the controller's _enrich_evaluation_results,                    *)
(* _calculate_business_metrics (RunGrade) and _get_historical_comparison   *)
(* (RunCompare).  The run record keeps what each statement computed.       *)
(***************************************************************************)
RunStep(phase) ==
    /\ last' = [op |-> "step", phase |-> phase]
    /\ UNCHANGED <<hashSeed, retrievalVars, ingestVars, evaluator, phoenix,
                   feedback>>

RunScore ==
    /\ run.pc = "read"
    /\ \E outcome \in EvaluatorOutcomes :
          IF outcome # "scores"
          THEN run' = [pc |-> "done", status |-> "error",
                       evaluated |-> IdsOf(run.interactions)]
          ELSE run' = [pc |-> "scored",
                       faithfulness_scores |->
                           ScoreColumn(run.interactions, "faithfulness"),
                       answer_relevancy_scores |->
                           ScoreColumn(run.interactions, "answer_relevancy")]
                      @@ run
    /\ UNCHANGED interactions
    /\ RunStep("SCORE")

RunAggregate ==
    /\ run.pc = "scored"
    /\ run' = [pc |-> "aggregated",
               average_scores |->
                   [faithfulness |-> AverageScore(run.faithfulness_scores),
                    answer_relevancy |->
                        AverageScore(run.answer_relevancy_scores)],
               individual_scores |->
                   IndividualScores(run.interactions, run.faithfulness_scores,
                                    run.answer_relevancy_scores)]
              @@ run
    /\ UNCHANGED interactions
    /\ RunStep("AGGREGATE")

RunPersist ==
    /\ run.pc = "aggregated"
    /\ interactions' = save_ragas_scores(interactions, run.interactions,
                                         run.individual_scores)
    /\ run' = [pc |-> "persisted", before |-> interactions] @@ run
    /\ RunStep("PERSIST")

RunGrade ==
    /\ run.pc = "persisted"
    /\ run' = [pc |-> "graded",
               business_metrics |-> BusinessMetrics(run)] @@ run
    /\ UNCHANGED interactions
    /\ RunStep("GRADE")

RunCompare ==
    /\ run.pc = "graded"
    /\ run' = [pc |-> "done", status |-> "success",
               evaluated |-> IdsOf(run.interactions),
               historical_comparison |->
                   HistoricalComparison(interactions, run)] @@ run
    /\ UNCHANGED interactions
    /\ RunStep("TREND_COMPARE")

InitRun == InitService

NextRun ==
    \/ StartEvaluation
    \/ RunScore
    \/ RunAggregate
    \/ RunPersist
    \/ RunGrade
    \/ RunCompare

SpecRun == InitRun /\ [][NextRun]_vars

(***************************************************************************)
(* POST /ask: the route ask_question over ChatController.process_question. *)
(* A question is a sequence of characters.  An exception is a record with  *)
(* its class; every class here derives from Exception.                     *)
(***************************************************************************)
MinQuestionLength == 3
MaxQuestionLength == 2000
MinMaxDocuments == 1
MaxMaxDocuments == 20

ChatBusinessException(message, error_code) ==
    [class |-> "ChatBusinessException", message |-> message,
     error_code |-> error_code, status_code |-> 0]

HTTPException(status_code, detail) ==
    [class |-> "HTTPException", message |-> detail,
     error_code |-> "", status_code |-> status_code]

\* isinstance(exception, class): what an except clause tests
IsInstance(exception, class) ==
    class = "Exception" \/ exception.class = class

NoException == <<>>

\* ChatController._validate_question_request: the exception raised, if any
ValidateQuestionRequest(request) ==
    IF request.question = <<>> \/ Strip(request.question) = <<>>
    THEN Some(ChatBusinessException("Pergunta nao pode estar vazia",
                                    "EMPTY_QUESTION"))
    ELSE IF Len(Strip(request.question)) < MinQuestionLength
    THEN Some(ChatBusinessException("Pergunta muito curta",
                                    "QUESTION_TOO_SHORT"))
    ELSE IF Len(request.question) > MaxQuestionLength
    THEN Some(ChatBusinessException("Pergunta muito longa",
                                    "QUESTION_TOO_LONG"))
    ELSE IF request.max_documents < MinMaxDocuments
            \/ request.max_documents > MaxMaxDocuments
    THEN Some(ChatBusinessException("max_documents deve estar entre 1 e 20",
                                    "INVALID_MAX_DOCUMENTS"))
    ELSE NoException

\* ChatController._create_error_response
CreateErrorResponse(message, error_type) ==
    [business_status |-> "error",
     error_details |-> [error_type |-> error_type, message |-> message]]

\* ChatController._enrich_rag_response
EnrichRagResponse(rag_response) ==
    [business_status |-> "success", rag_response |-> rag_response]

\* ChatController.process_question: searchOk is whether the vector store
\* answers; its failure is an exception out of RAGService.ask_question
process_question(request, save_interaction, llmOk, searchOk) ==
    LET raised == ValidateQuestionRequest(request)
        out == ask_question(request.question, request.max_documents,
                            request.category_filter, save_interaction, llmOk)
    IN  IF raised # NoException
        THEN [response |-> CreateErrorResponse(raised[1].message,
                                               "BUSINESS_ERROR"),
              saved |-> <<>>]
        ELSE IF ~searchOk
        THEN [response |-> CreateErrorResponse(
                               "Erro interno durante processamento da pergunta",
                               "TECHNICAL_ERROR"),
              saved |-> <<>>]
        ELSE [response |-> EnrichRagResponse(out.response),
              saved |-> out.saved]

Return(status_code) == [kind |-> "return", status_code |-> status_code]
Raise(exception) == [kind |-> "raise", exception |-> exception]

\* the body of the route's try block
RouteTryBody(response) ==
    IF response.business_status = "error"
    THEN IF response.error_details.error_type = "BUSINESS_ERROR"
         THEN Raise(HTTPException(400, response.error_details.message))
         ELSE Raise(HTTPException(500, response.error_details.message))
    ELSE Return(200)

\* the route's except clauses, tried in order on what the try block raised
RouteExcept(outcome) ==
    IF outcome.kind # "raise"
    THEN outcome
    ELSE IF IsInstance(outcome.exception, "ChatBusinessException")
    THEN Raise(HTTPException(400, outcome.exception.message))
    ELSE IF IsInstance(outcome.exception, "Exception")
    THEN Raise(HTTPException(500, "Erro interno no pipeline RAG"))
    ELSE outcome

\* the status FastAPI answers with
HttpStatus(outcome) ==
    IF outcome.kind = "return" THEN outcome.status_code
    ELSE IF outcome.exception.class = "HTTPException"
    THEN outcome.exception.status_code
    ELSE 500

post_ask(response) == HttpStatus(RouteExcept(RouteTryBody(response)))

\* empty, whitespace only, two characters, two characters in whitespace,
\* three characters, the longest allowed and one longer
ChatQuestions ==
    {<<>>, <<SP, SP, SP>>, <<"o", "k">>, <<SP, "o", "k", SP>>,
     <<"w", "h", "y">>, Repeat("a", MaxQuestionLength),
     Repeat("a", MaxQuestionLength + 1)}

ChatMaxDocuments ==
    {MinMaxDocuments - 1, MinMaxDocuments, 5, MaxMaxDocuments,
     MaxMaxDocuments + 1}

QuestionRequest(question, max_documents, category_filter) ==
    [question |-> question, max_documents |-> max_documents,
     category_filter |-> category_filter]

InitChat == InitAsk

\* the answer to a request does not depend on the requests before it, so
\* one request per behaviour shows every request
PostAsk ==
    \E question \in ChatQuestions, max_documents \in ChatMaxDocuments,
       category_filter \in AskFilters, llmOk \in BOOLEAN,
       searchOk \in BOOLEAN :
        /\ last.op = "none"
        /\ LET request == QuestionRequest(question, max_documents,
                                          category_filter)
               processed == process_question(request, TRUE, llmOk, searchOk)
           IN  /\ last' = [op |-> "post_ask", request |-> request,
                           llmOk |-> llmOk, searchOk |-> searchOk,
                           response |-> processed.response,
                           status |-> post_ask(processed.response)]
               /\ interactions' = interactions \o processed.saved
        /\ UNCHANGED <<hashSeed, retrievalVars, ingestVars, evaluationVars>>

NextChat == PostAsk

SpecChat == InitChat /\ [][NextChat]_vars

(***************************************************************************)
(* Retrieval and reranking.                                                *)
(***************************************************************************)
SearchDone == last.op = "search"

\* the first k elements of a result list
Prefix(documents, k) == SubSeq(documents, 1, Min(k, Len(documents)))

C2_SortedTopK ==
    SearchDone =>
        LET docs == last.result.documents
        IN  /\ Len(docs) <= last.limit
            /\ \A i \in DOMAIN docs :
                  /\ \E j \in DOMAIN last.result.candidates :
                        last.result.candidates[j].id = docs[i].id
                  /\ docs[i].similarity_score = crossScore[docs[i].content]
            /\ \A i, j \in DOMAIN docs :
                  i < j => docs[i].similarity_score >= docs[j].similarity_score

\* more candidates than limit, and results whose scores differ
C2_Witness ==
    /\ SearchDone
    /\ Len(last.result.candidates) > last.limit
    /\ Len(last.result.documents) = last.limit
    /\ \E i, j \in DOMAIN last.result.documents :
          last.result.documents[i].similarity_score
              > last.result.documents[j].similarity_score

\* C3: when the coarse query returns no candidate, the search returns the
\* empty list and cross_encoder.predict is not invoked during the call.
C3_NoCandidatesNoRerank ==
    (SearchDone /\ last.result.candidates = <<>>) =>
        /\ last.result.documents = <<>>
        /\ last.result.predictCalls = 0

\* a filter that matches none of the chunks of a non-empty index
C3_Witness ==
    /\ SearchDone
    /\ collection # <<>>
    /\ last.result.candidates = <<>>

(***************************************************************************)
(* Answer composition.                                                     *)
(***************************************************************************)
AskDone == last.op = "ask"

\* C4: when retrieval returns nothing, ask_question answers with the fixed
\* no-relevant-documents text, has_context false, no sources and
\* context_used 0, and the external generator is not invoked in that call.
C4_NoContextNoGeneration ==
    (AskDone /\ last.out.relevant_docs = <<>>) =>
        /\ last.out.response.answer = NoDocsAnswer
        /\ last.out.response.has_context = FALSE
        /\ last.out.response.sources = <<>>
        /\ last.out.response.context_used = 0
        /\ last.out.llmCalls = 0

\* a question over a non-empty index whose filter matches nothing
C4_Witness ==
    /\ AskDone
    /\ collection # <<>>
    /\ last.out.relevant_docs = <<>>

(***************************************************************************)
(* Ingestion and noise filtering.                                          *)
(***************************************************************************)
LoadDone == last.op = "load"

SourceFile(file) == <<file.stem, file.ext>>

\* the text the last load kept of a file: the content of its document,
\* empty when the file produced none
CleanedText(file) ==
    IF \E i \in DOMAIN last.documents :
          last.documents[i].metadata.source_file = SourceFile(file)
    THEN LET i == CHOOSE i \in DOMAIN last.documents :
                     last.documents[i].metadata.source_file = SourceFile(file)
         IN  last.documents[i].content
    ELSE <<>>

\* the files the filter was applied to
Filtered(file) == IsTxt(file) /\ ~Raises(file)

OverridesHold(file) ==
    /\ \A s \in Range(CleanedText(file)) : s \notin KNOWN_NOISE
    /\ \A s \in Range(file.content) :
          s \in EXCEPTIONS => s \in Range(CleanedText(file))

\* C5 as stated: for every input text and every score, the filter's output
\* holds no sentence of the forced-noise list, and holds every sentence of
\* the exceptions list whatever its score.
C5_FilterOverrides ==
    LoadDone =>
        \A i \in DOMAIN files : Filtered(files[i]) => OverridesHold(files[i])

\* C5 amended: the same, when the segmenter and the perplexity model are
\* loaded (without them the filter returns its input, forced noise
\* included).
C5_FilterOverridesWhenScoring ==
    (LoadDone /\ nlp /\ model) =>
        \A i \in DOMAIN files : Filtered(files[i]) => OverridesHold(files[i])

\* a file with an exception scored above the threshold and a forced-noise
\* sentence scored at it: the first is kept, the second removed
C5_Witness ==
    /\ LoadDone /\ nlp /\ model
    /\ perplexity[ExceptionA] > PERPLEXITY_THRESHOLD
    /\ perplexity[NoiseA] <= PERPLEXITY_THRESHOLD
    /\ \E i \in DOMAIN files :
          /\ Filtered(files[i])
          /\ {ExceptionA, NoiseA} \subseteq Range(files[i].content)
          /\ ExceptionA \in Range(CleanedText(files[i]))

\* C6: when the segmenter or the perplexity model did not load, the filter
\* returns its input unchanged and the file is ingested: every readable
\* .txt file with some text yields a document whose content is the file's
\* text.
C6_PassThroughIsIdentity ==
    (LoadDone /\ (~nlp \/ ~model)) =>
        \A i \in DOMAIN files :
            (IsTxt(files[i]) /\ files[i].fault # "read"
                /\ Strip(files[i].content) # <<>>)
            => /\ \E d \in DOMAIN last.documents :
                     last.documents[d].metadata.source_file = SourceFile(files[i])
               /\ CleanedText(files[i]) = Strip(files[i].content)

\* one model missing, and a file of two lines with a sentence the loaded
\* filter would have removed
C6_Witness ==
    /\ LoadDone /\ nlp /\ ~model
    /\ \E i \in DOMAIN files :
          /\ IsTxt(files[i])
          /\ NL \in Range(Strip(files[i].content))
          /\ Short \in Range(files[i].content)
          /\ CleanedText(files[i]) = Strip(files[i].content)

\* no sentence of the file is accepted: with the filter, every sentence is
\* too short or suspect; without it, the file has no text
NoAcceptedSentence(file) ==
    IF nlp /\ model
    THEN \A s \in Range(Sentences(file.content)) : TooShort(s) \/ Suspect(s)
    ELSE Sentences(file.content) = <<>>

FromFile(entry, file) == entry.metadata.source_file = SourceFile(file)

\* C7: a file whose cleaned text has no accepted sentence produces no
\* document: it is not in the list the load returns and the index never
\* holds a chunk of it.
C7_EmptyFileDropped ==
    \A i \in DOMAIN files :
        (Filtered(files[i]) /\ NoAcceptedSentence(files[i])) =>
            /\ \A e \in Range(collection) : ~FromFile(e, files[i])
            /\ LoadDone =>
                  \A d \in DOMAIN last.documents :
                      last.documents[d].metadata.source_file # SourceFile(files[i])

\* a directory of a noise-only file and a file that was indexed
C7_Witness ==
    /\ LoadDone /\ nlp /\ model
    /\ \E i, j \in DOMAIN files :
          /\ Filtered(files[i]) /\ NoAcceptedSentence(files[i])
          /\ NoiseA \in Range(files[i].content)
          /\ \E e \in Range(collection) : FromFile(e, files[j])

Eligible(file) == Filtered(file) /\ ~NoAcceptedSentence(file)

EligibleFiles == SelectSeq(files, Eligible)

\* C8: a file that raises while it is read or cleaned is skipped and every
\* other eligible file is processed and returned: the documents of a load
\* are those of the eligible files, in directory order.
C8_PartialFailure ==
    LoadDone =>
        /\ Len(last.documents) = Len(EligibleFiles)
        /\ \A d \in DOMAIN last.documents :
              last.documents[d].metadata.source_file = SourceFile(EligibleFiles[d])

\* a file that raises, listed before a file that was returned
C8_Witness ==
    /\ LoadDone
    /\ \E i, j \in DOMAIN files :
          /\ i < j
          /\ IsTxt(files[i]) /\ Raises(files[i])
          /\ \E d \in DOMAIN last.documents :
                last.documents[d].metadata.source_file = SourceFile(files[j])

SameChunk(e1, e2) ==
    /\ e1.title = e2.title
    /\ e1.category = e2.category
    /\ e1.content = e2.content
    /\ e1.metadata = e2.metadata

\* C9: ingesting the same file again, in the same or in another process
\* run, gives its chunks the same ids and leaves one index entry per chunk.
C9_IdempotentIngestion ==
    \A i, j \in DOMAIN collection :
        SameChunk(collection[i], collection[j]) =>
            /\ collection[i].id = collection[j].id
            /\ i = j

InIndex(chunk) == \E e \in Range(collection) : SameChunk(e, chunk)

\* C10: after a load, each document has all of its chunks in the index or
\* none of them.
C10_FileAtomicity ==
    LoadDone =>
        \A d \in DOMAIN last.documents :
            LET chunks == chunk_document(last.documents[d])
            IN  \/ \A c \in DOMAIN chunks : InIndex(chunks[c])
                \/ \A c \in DOMAIN chunks : ~InIndex(chunks[c])

(***************************************************************************)
(* Quality evaluation.                                                     *)
(***************************************************************************)
EvaluationDone == last.op = "evaluate"

EvaluationSucceeded ==
    EvaluationDone /\ last.result.evaluation_status = "success"

\* a score that is present and is a number
Numeric(score) == score # Null /\ ~score[1].nan

\* the numeric scores the evaluator gave the evaluated interactions
NumericScores(metric) ==
    LET ids == IdsOf(last.interactions)
        IsNumeric(id) == Numeric(evaluator[id][metric])
        numeric == SelectSeq(ids, IsNumeric)
    IN  [i \in DOMAIN numeric |-> evaluator[numeric[i]][metric][1].v]

RECURSIVE Total(_)
Total(numbers) ==
    IF numbers = <<>> THEN 0 ELSE Head(numbers) + Total(Tail(numbers))

\* C11: after a successful run the reported average of each metric is the
\* mean over the interactions with a valid numeric score for it; a missing
\* or NaN score never makes the average NaN, and when no interaction has a
\* valid score the average is not reported as zero.
C11_AveragesExcludeMissing ==
    EvaluationSucceeded =>
        \A metric \in Metrics :
            LET numeric == NumericScores(metric)
                average == last.result.average_scores[metric]
            IN  /\ ~average.nan
                /\ IF numeric = <<>>
                   THEN average # Float(0)
                   ELSE average =
                          Float(RoundHalfEven(Total(numeric), Len(numeric)))

\* the thresholds of a run's recommendations, on its aggregates
RunThresholdTriggers ==
    LET average_scores == last.result.average_scores
        distribution == last.result.business_metrics.score_distribution
        evaluated == distribution["excellent"] + distribution["good"]
                     + distribution["fair"] + distribution["poor"]
    IN  \/ (~average_scores.faithfulness.nan
            /\ average_scores.faithfulness.v < FaithfulnessThreshold)
        \/ (~average_scores.answer_relevancy.nan
            /\ average_scores.answer_relevancy.v < RelevancyThreshold)
        \/ (evaluated > 0
            /\ 1000 * distribution["poor"] > PoorFractionThreshold * evaluated)
        \/ ("trends" \in DOMAIN last.result.historical_comparison
            /\ \E metric \in DOMAIN last.result.historical_comparison.trends :
                  last.result.historical_comparison.trends[metric].trend
                      = "declining")

\* the thresholds of the combined report's recommendations, on its aggregates
ReportThresholdTriggers ==
    /\ "metrics" \in DOMAIN last.report.ragas_metrics
    /\ \/ Less(last.report.ragas_metrics.metrics.faithfulness.mean,
               FaithfulnessThreshold)
       \/ Less(last.report.ragas_metrics.metrics.answer_relevancy.mean,
               RelevancyThreshold)

\* C12: recommendation generation always returns a non-empty list, and it
\* returns the single healthy message exactly when no threshold triggers;
\* this for the recommendations of an evaluation run and for those of the
\* combined report.
C12_RecommendationTotality ==
    /\ EvaluationSucceeded =>
          /\ last.result.business_recommendations # <<>>
          /\ (last.result.business_recommendations = <<Healthy>>)
                <=> ~RunThresholdTriggers
    /\ last.op = "report" =>
          /\ last.report.recommendations # <<>>
          /\ (last.report.recommendations = <<SystemHealthy>>)
                <=> ~ReportThresholdTriggers

\* an explicit id list over the size limit or with an id that is too short
Malformed(request) ==
    /\ request.interaction_ids # Null
    /\ LET ids == request.interaction_ids[1]
       IN  \/ Len(ids) > MaxEvaluationIds
           \/ \E i \in DOMAIN ids : Len(ids[i]) < MinIdLength

\* C13: an evaluation request whose explicit id list has more than 100 ids
\* or an id shorter than 10 characters ends with a validation error, the
\* evaluator is not called and the store is as it was.
C13_MalformedRequestRejected ==
    (EvaluationDone /\ Malformed(last.request)) =>
        /\ last.result.evaluation_status = "error"
        /\ last.result.error_code
              \in {"TOO_MANY_INTERACTIONS", "INVALID_INTERACTION_IDS"}
        /\ last.evaluateCalls = 0
        /\ interactions = last.before

\* a rejected list with a stored id and a short one, over a non-empty store
C13_Witness ==
    /\ EvaluationDone
    /\ interactions # <<>>
    /\ last.request = [interaction_ids |-> Some(<<Uuid(1), ShortId>>)]
    /\ last.result.evaluation_status = "error"

\* C14: after a successful run each evaluated interaction holds exactly the
\* pair of scores computed for that interaction, no record was added, and a
\* run over interactions that already held these scores leaves the store as
\* it was.
C14_ScorePersistence ==
    EvaluationSucceeded =>
        /\ \A k \in DOMAIN last.interactions :
              LET id == last.interactions[k].id
              IN  RowOf(interactions, id).ragas_scores
                      = Some(ScorePair(evaluator[id].faithfulness,
                                       evaluator[id].answer_relevancy))
        /\ Len(interactions) = Len(last.before)
        /\ (\A k \in DOMAIN last.interactions :
               RowOf(last.before, last.interactions[k].id).ragas_scores # Null)
           => interactions = last.before

\* a second run over two interactions with different scores, listed in
\* the reverse of the table order
C14_Witness ==
    /\ EvaluationSucceeded
    /\ Len(last.interactions) = 2
    /\ last.request.interaction_ids[1] = <<Uuid(2), Uuid(1)>>
    /\ evaluator[Uuid(1)] # evaluator[Uuid(2)]
    /\ \A k \in DOMAIN last.interactions :
          RowOf(last.before, last.interactions[k].id).ragas_scores # Null

\* C15: once a feedback submission and an evaluation run on the same
\* interaction have both completed, in whatever order their reads and
\* writes interleaved, the record holds the submitted rating and the
\* computed scores.
C15_NoLostUpdate ==
    (/\ run.pc = "done" /\ run.status = "success"
     /\ feedback.pc = "done" /\ feedback.status = 200
     /\ feedback.interaction_id \in Range(run.evaluated)) =>
        LET row == RowOf(interactions, feedback.interaction_id)
        IN  /\ row.user_feedback = Some(feedback.rating)
            /\ row.ragas_scores = Some(evaluator[feedback.interaction_id])

\* the run wrote the scores of an interaction it had read without a rating
\* and that was rated before the write
C15_Witness ==
    /\ EvaluationSucceeded
    /\ feedback.pc = "done" /\ feedback.status = 200
    /\ \E k \in DOMAIN last.interactions :
          /\ last.interactions[k].id = feedback.interaction_id
          /\ last.interactions[k].user_feedback = Null
          /\ RowOf(last.before, feedback.interaction_id).user_feedback # Null

\* the stored numeric scores of a metric in the comparison window
HistoricalNumbers(metric) ==
    LET InWindow(row) ==
            /\ row.timestamp >= Today - HistoricalWindowDays
            /\ row.ragas_scores # Null
            /\ row.ragas_scores[1][metric] # Null
        rows == SelectSeq(interactions, InWindow)
    IN  [i \in DOMAIN rows |-> rows[i].ragas_scores[1][metric][1]]

HistoricalHasNaN(metric) ==
    \E i \in DOMAIN HistoricalNumbers(metric) : HistoricalNumbers(metric)[i].nan

\* current minus historical, times the number of historical scores
ScaledDifference(metric) ==
    LET numbers == HistoricalNumbers(metric)
    IN  last.result.average_scores[metric].v * Len(numbers)
        - Total([i \in DOMAIN numbers |-> numbers[i].v])

ComparableMetric(metric) ==
    /\ HistoricalNumbers(metric) # <<>>
    /\ ~HistoricalHasNaN(metric)
    /\ ~last.result.average_scores[metric].nan

C19_ScoringFailureDoesNotAbort ==
    /\ (EvaluationDone /\ last.outcome = "raises") =>
          /\ last.result.evaluation_status = "success"
          /\ \A k \in DOMAIN last.interactions :
                RowOf(interactions, last.interactions[k].id).ragas_scores
                    # Null
    /\ EvaluationSucceeded =>
          \A k \in DOMAIN last.interactions, metric \in Metrics :
              LET id == last.interactions[k].id
                  stored == RowOf(interactions, id).ragas_scores
              IN  /\ stored # Null
                  /\ IF Numeric(evaluator[id][metric])
                     THEN stored[1][metric] = evaluator[id][metric]
                     ELSE stored[1][metric] = Null

\* the ratings in 1..5 of the store
ValidRatings ==
    LET Rated(row) == /\ row.user_feedback # Null
                      /\ row.user_feedback[1] >= MinRating
                      /\ row.user_feedback[1] <= MaxRating
        rated == SelectSeq(interactions, Rated)
    IN  [i \in DOMAIN rated |-> rated[i].user_feedback[1]]

\* C20: the user-rating aggregate is the mean of (rating - 1) / 4 over the
\* interactions with a rating in 1..5, and None when there is no rating.
C20_UserRatingAggregate ==
    last.op = "stats" =>
        LET ratings == ValidRatings
        IN  IF ratings = <<>>
            THEN last.stats.average_user_rating = Null
            ELSE last.stats.average_user_rating =
                    Float(RoundHalfEven(
                        250 * (Total(ratings) - Len(ratings)), Len(ratings)))

(***************************************************************************)
(* POST /ask.                                                              *)
(***************************************************************************)
\* a request that fails validation
InvalidQuestionRequest(request) ==
    \/ Strip(request.question) = <<>>
    \/ Len(Strip(request.question)) < MinQuestionLength
    \/ Len(request.question) > MaxQuestionLength
    \/ request.max_documents < MinMaxDocuments
    \/ request.max_documents > MaxMaxDocuments

\* C17: a question request that fails validation (empty or whitespace-only
\* question, under 3 or over 2000 characters, max_documents outside 1..20)
\* is answered by POST /ask with status 400, not 500.
C17_InvalidQuestionIs400 ==
    (last.op = "post_ask" /\ InvalidQuestionRequest(last.request)) =>
        last.status = 400

\* C18: when the external answer generator fails, ask_question still
\* returns a response: its answer is the generation-failed message, it
\* carries the error, and its sources list names the retrieved passages one
\* for one, in order.
C18_GenerationFailureDegrades ==
    (AskDone /\ ~last.llmOk /\ last.out.relevant_docs # <<>>) =>
        LET response == last.out.response
            relevant_docs == last.out.relevant_docs
        IN  /\ response.answer = GenerationFailedAnswer
            /\ response.error # None
            /\ response.has_context
            /\ Len(response.sources) = Len(relevant_docs)
            /\ \A i \in DOMAIN relevant_docs :
                  /\ response.sources[i].id = i
                  /\ response.sources[i].title = relevant_docs[i].title
                  /\ response.sources[i].category = relevant_docs[i].category

\* the generator failed on a question with two retrieved passages
C18_Witness ==
    /\ AskDone
    /\ ~last.llmOk
    /\ last.out.llmCalls = 1
    /\ Len(last.out.relevant_docs) = 2
    /\ last.out.response.answer = GenerationFailedAnswer

(***************************************************************************)
(* Feedback and the interaction log.                                       *)
(***************************************************************************)
FeedbackDone == last.op = "feedback"

\* C21: a feedback submission for an unknown interaction id is answered
\* with 404 and one with a rating outside 1..5 for a stored interaction
\* with 400, and neither changes a record; a rating in 1..5 for a stored
\* interaction becomes that interaction's user_feedback and changes no
\* other record.
C21_FeedbackSubmission ==
    FeedbackDone =>
        LET id == last.interaction_id
            known == \E i \in DOMAIN last.before : last.before[i].id = id
            inRange == last.rating >= 1 /\ last.rating <= 5
        IN  /\ ~known => (last.status = 404 /\ interactions = last.before)
            /\ (known /\ ~inRange) =>
                  (last.status = 400 /\ interactions = last.before)
            /\ (known /\ inRange) =>
                  /\ last.status # 400 /\ last.status # 404
                  /\ Len(interactions) = Len(last.before)
                  /\ \A i \in DOMAIN interactions :
                        IF interactions[i].id = id
                        THEN interactions[i].user_feedback = <<last.rating>>
                        ELSE interactions[i] = last.before[i]

\* a rating of 6 for an interaction that holds a rating already
C21_Witness ==
    /\ FeedbackDone
    /\ last.status = 400
    /\ last.rating = 6
    /\ \E i \in DOMAIN interactions :
          /\ interactions[i].id = last.interaction_id
          /\ interactions[i].user_feedback # <<>>

\* no row of the store left out of rows is more recent than a row of rows
NoMoreRecentLeftOut(rows, store) ==
    \A i \in DOMAIN rows, j \in DOMAIN store :
        (\A k \in DOMAIN rows : rows[k].id # store[j].id)
            => store[j].timestamp <= rows[i].timestamp

\* C22: when no id list is given the interactions read for evaluation are
\* the most recent N by timestamp, N being 50 for a request to the
\* controller and the limit argument for a call of evaluate_interactions:
\* N of them when the store holds as many, and none while a more recent
\* one is left out.
C22_MostRecentEvaluated ==
    /\ (last.op = "read" /\ last.request.interaction_ids = <<>>) =>
          /\ Len(run.interactions) = Min(RecentLimit, Len(interactions))
          /\ NoMoreRecentLeftOut(run.interactions, interactions)
    /\ last.op = "service_read" =>
          /\ Len(run.interactions) = Min(last.limit, Len(interactions))
          /\ NoMoreRecentLeftOut(run.interactions, interactions)

\* the fields of an interaction that are fixed at its creation
SameContent(old, new) ==
    /\ new.id = old.id
    /\ new.timestamp = old.timestamp
    /\ new.question = old.question
    /\ new.answer = old.answer
    /\ new.contexts = old.contexts
    /\ new.sources = old.sources

Collected == "interactions" \in DOMAIN run
Scored == "faithfulness_scores" \in DOMAIN run
Averaged == "average_scores" \in DOMAIN run
Persisted == "before" \in DOMAIN run
Graded == "business_metrics" \in DOMAIN run
Compared == "historical_comparison" \in DOMAIN run

\* the store holds every interaction the run read as the run read it
StoreAsRead ==
    \A k \in DOMAIN run.interactions :
        \E i \in DOMAIN interactions : interactions[i] = run.interactions[k]

\* the store holds the run's scores of every interaction the run read
RunScoresStored ==
    \A k \in DOMAIN run.interactions :
        \E i \in DOMAIN interactions :
            /\ interactions[i].id = run.interactions[k].id
            /\ interactions[i].ragas_scores =
                  <<[faithfulness |-> run.individual_scores[k].faithfulness,
                     answer_relevancy |->
                         run.individual_scores[k].answer_relevancy]>>

\* the scored interactions of the store in the comparison window
ScoredInStore ==
    {i \in DOMAIN interactions :
        /\ interactions[i].timestamp >= Today - HistoricalWindowDays
        /\ interactions[i].ragas_scores # <<>>}

\* the comparison counted the store as it is after the write
ComparedAfterWrite ==
    IF ScoredInStore = {}
    THEN run.historical_comparison.status = "no_historical_data"
    ELSE /\ run.historical_comparison.status = "comparison_available"
         /\ run.historical_comparison.historical_interactions_count =
                Cardinality(ScoredInStore)

\* C24: a run goes COLLECT, SCORE, AGGREGATE, PERSIST, TREND_COMPARE: the
\* scores are written only after scoring and after the averages, the
\* quality grade and the score distribution have been computed, and the
\* trend comparison reads the store only after the write.
C24_RunOrder ==
    /\ Scored => Collected
    /\ Averaged => Scored
    /\ (Collected /\ ~Persisted) => StoreAsRead
    /\ Persisted => (Averaged /\ Graded /\ RunScoresStored)
    /\ Compared => (Persisted /\ ComparedAfterWrite)

\* C24, as the code has it: the scores are written after scoring and after
\* the averages and the individual scores have been computed; the quality
\* grade and the score distribution are computed after the write, from
\* the run's own results; the trend comparison comes last and reads the
\* store as the write left it.
C24_RunOrderGradeAfterWrite ==
    /\ Scored => Collected
    /\ Averaged => Scored
    /\ (Collected /\ ~Persisted) => StoreAsRead
    /\ Persisted => (Averaged /\ RunScoresStored)
    /\ Graded => Persisted
    /\ Compared => (Graded /\ ComparedAfterWrite)

\* a run over two interactions that has compared its averages with a
\* history that holds its own scores
C24_Witness ==
    /\ run.pc = "done"
    /\ Compared
    /\ Len(run.interactions) = 2
    /\ run.before # interactions
    /\ run.historical_comparison.status = "comparison_available"

(***************************************************************************)
(* Quality grading.                                                        *)
(***************************************************************************)
\* the band of the quotient num / den of thousandths, den > 0
BandOf(num, den) ==
    IF num >= 800 * den THEN "excellent"
    ELSE IF num >= 700 * den THEN "good"
    ELSE IF num >= 600 * den THEN "fair"
    ELSE "poor"

GradeOf(band) ==
    CASE band = "excellent" -> "Excellent"
      [] band = "good" -> "Good"
      [] band = "fair" -> "Fair"
      [] band = "poor" -> "Poor"

\* the metrics with a valid mean in the last run
ValidMetrics == {metric \in Metrics : NumericScores(metric) # <<>>}

\* the band of the mean of the valid metric means
OverallBand ==
    LET f == NumericScores("faithfulness")
        r == NumericScores("answer_relevancy")
    IN  IF ValidMetrics = Metrics
        THEN BandOf(Total(f) * Len(r) + Total(r) * Len(f),
                    2 * Len(f) * Len(r))
        ELSE IF "faithfulness" \in ValidMetrics
        THEN BandOf(Total(f), Len(f))
        ELSE BandOf(Total(r), Len(r))

\* the numeric scores the evaluator gave one interaction
AvailableOf(id) ==
    LET f == evaluator[id].faithfulness
        r == evaluator[id].answer_relevancy
    IN  (IF Numeric(f) THEN <<f[1].v>> ELSE <<>>)
        \o (IF Numeric(r) THEN <<r[1].v>> ELSE <<>>)

\* C25: after a successful run the overall grade is the band (at least
\* 0.8, 0.7, 0.6, or lower) of the mean of the metric means, taken over
\* the metrics that have a valid mean, and the distribution counts each
\* interaction that has an available metric once, in the band of the
\* average of its available metrics.
C25_QualityGrading ==
    EvaluationSucceeded =>
        /\ ValidMetrics # {} =>
              last.result.business_metrics.quality_grade = GradeOf(OverallBand)
        /\ \A band \in {"excellent", "good", "fair", "poor"} :
              last.result.business_metrics.score_distribution[band] =
                  Cardinality(
                      {k \in DOMAIN last.interactions :
                          LET available ==
                                  AvailableOf(last.interactions[k].id)
                          IN  /\ available # <<>>
                              /\ BandOf(Total(available), Len(available))
                                     = band})

\* C26: an ask_question call with save_interaction true persists exactly
\* one interaction and one with save_interaction false persists none, and
\* the response carries an interaction_id, the id of the persisted
\* interaction, exactly when one was persisted, the answer without
\* context included.
C26_InteractionIdIffPersisted ==
    AskDone =>
        /\ Len(last.out.saved) = (IF last.save_interaction THEN 1 ELSE 0)
        /\ \A i \in DOMAIN last.out.saved :
              \E j \in DOMAIN interactions :
                  interactions[j] = last.out.saved[i]
        /\ (last.out.response.interaction_id # None)
              <=> (last.out.saved # <<>>)
        /\ last.out.saved # <<>> =>
              last.out.response.interaction_id = last.out.saved[1].id

(***************************************************************************)
(* Failures of the evaluator.                                              *)
(***************************************************************************)
EvaluatorFailed ==
    /\ last.op \in {"service", "evaluate"}
    /\ last.outcome \in {"raises", "empty"}

\* C27: when the evaluator raises or returns an empty result, the call of
\* evaluate_interactions, direct or through the controller, returns an
\* error result, and every interaction of the store has the scores it had
\* before the call.
C27_EvaluatorFailureLeavesScores ==
    EvaluatorFailed =>
        /\ IF last.op = "service"
           THEN "error" \in DOMAIN last.result
           ELSE last.result.evaluation_status = "error"
        /\ Len(interactions) = Len(last.before)
        /\ \A i \in DOMAIN interactions :
              /\ interactions[i].id = last.before[i].id
              /\ interactions[i].ragas_scores = last.before[i].ragas_scores

\* the evaluator raised in a direct call over two interactions, one of
\* which holds the scores of an earlier run
C27_Witness ==
    /\ EvaluatorFailed
    /\ last.op = "service"
    /\ last.outcome = "raises"
    /\ Len(last.interactions) = 2
    /\ \E i \in DOMAIN interactions : interactions[i].ragas_scores # <<>>
    /\ \E i \in DOMAIN interactions : interactions[i].ragas_scores = <<>>

(***************************************************************************)
(* The history a run is compared with.                                     *)
(***************************************************************************)
\* the scored interactions of a store in the comparison window
ScoredIn(store) ==
    {i \in DOMAIN store :
        /\ store[i].timestamp >= Today - HistoricalWindowDays
        /\ store[i].ragas_scores # <<>>}

\* the comparison of the last run counted the scored interactions of store
HistoryCountedFrom(store) ==
    IF ScoredIn(store) = {}
    THEN last.result.historical_comparison.status = "no_historical_data"
    ELSE /\ last.result.historical_comparison.status = "comparison_available"
         /\ last.result.historical_comparison.historical_interactions_count
                = Cardinality(ScoredIn(store))

\* C28: the history a run's averages are compared with is computed from
\* the store as it was before the run wrote its scores: the scores of the
\* batch are not part of it, and a first run reports no historical data.
C28_HistoryBeforeWrite ==
    EvaluationSucceeded => HistoryCountedFrom(last.before)

\* C28, as the code has it: the history is computed from the store as the
\* run's write left it, so the scores of the batch that lie in the window
\* are part of it, with the historical average of a metric the mean of the
\* stored scores of the window, the batch's included; a first run reports
\* historical data whenever it scored an interaction of the window.
C28_HistoryAfterWrite ==
    EvaluationSucceeded =>
        /\ HistoryCountedFrom(interactions)
        /\ ScoredIn(interactions) # {} =>
              \A metric \in Metrics :
                  IF HistoricalNumbers(metric) = <<>>
                  THEN metric \notin
                           DOMAIN last.result.historical_comparison.trends
                  ELSE /\ metric \in
                              DOMAIN last.result.historical_comparison.trends
                       /\ ~HistoricalHasNaN(metric) =>
                             last.result.historical_comparison
                                 .trends[metric].historical =
                             [nan |-> FALSE,
                              v |-> RoundHalfEven(
                                  Total([i \in DOMAIN HistoricalNumbers(metric)
                                          |-> HistoricalNumbers(metric)[i].v]),
                                  Len(HistoricalNumbers(metric)))]

\* a first run, over a store without scores, that reports a history
C28_Witness ==
    /\ EvaluationSucceeded
    /\ \A i \in DOMAIN last.before : last.before[i].ragas_scores = <<>>
    /\ last.result.historical_comparison.status = "comparison_available"
    /\ last.result.historical_comparison.historical_interactions_count
           = Len(last.interactions)

\* two quotients of the same value
SameQuotient(a, b) ==
    /\ a.nan = b.nan
    /\ ~a.nan => a.num * b.den = b.num * a.den

\* C29: over the scored interactions of the window, the mean and the count
\* that the quality report gives for a metric are those of the historical
\* average over the same interactions, a stored score of exactly 0 included
C29_AggregationsAgree ==
    (last.op = "report" /\ "metrics" \in DOMAIN last.report.ragas_metrics) =>
        \A metric \in Metrics :
            LET stats == last.report.ragas_metrics.metrics[metric]
                historical ==
                    HistoricalAverages(
                        ScoredInWindow(interactions, HistoricalWindowDays))
            IN  /\ stats.count = Len(HistoricalNumbers(metric))
                /\ metric \in DOMAIN historical =>
                       SameQuotient(stats.mean, historical[metric])

\* the same, for stores in which no metric holds a score of exactly 0
C29_AgreeWithoutZero ==
    (/\ last.op = "report"
     /\ "metrics" \in DOMAIN last.report.ragas_metrics
     /\ \A metric \in Metrics :
           \A k \in DOMAIN HistoricalNumbers(metric) :
               HistoricalNumbers(metric)[k] # Float(0)) =>
        \A metric \in Metrics :
            LET stats == last.report.ragas_metrics.metrics[metric]
                historical ==
                    HistoricalAverages(
                        ScoredInWindow(interactions, HistoricalWindowDays))
            IN  /\ stats.count = Len(HistoricalNumbers(metric))
                /\ metric \in DOMAIN historical =>
                       SameQuotient(stats.mean, historical[metric])

\* every result has the category of the call's filter, and a filter that
\* no chunk of the index has gives no result
FilterApplied ==
    /\ \A i \in DOMAIN last.result.documents :
          last.result.documents[i].category = last.category_filter
    /\ (\A i \in DOMAIN collection :
           collection[i].category # last.category_filter)
       => last.result.documents = <<>>

\* C30: with a non-empty category filter, every result of search_documents
\* has the filter's category, whatever the filter's value (the literal
\* "string" included), and a filter that matches no indexed category gives
\* the empty result.
C30_FilterAlwaysApplied ==
    (SearchDone /\ last.category_filter \notin {None, ""}) => FilterApplied

\* the same for every non-empty filter other than the literal "string"
C30_FilterAppliedUnlessString ==
    (SearchDone /\ last.category_filter \notin {None, "", "string"})
        => FilterApplied

====
